---- MODULE Spec2Model ----
(***************************************************************************)
(* Sparse (CSR) times dense multiply: baseline, 2D tiling, row/column      *)
(* permutation, density classification and the tile driver.                *)
(*                                                                         *)
(* C++ vectors are functions over 0..n-1, so every index expression of the *)
(* source (i * Y_cols + j, indptr[i + 1], ...) is kept as written.  Values *)
(* are integers: the arithmetic of the model is exact.                     *)
(***************************************************************************)
EXTENDS Integers, Sequences, FiniteSets, TLC

\* ------------------------------------------------------------------ bounds
\* Most entries the loader stores in X.
MaxNnz == 2

\* Shapes of X: up to three rows and columns, so that a grid has clipped edge
\* tiles and a permutation need not be its own inverse.
Shapes == (1..3) \X (1..3)

\* Nonzero values a stored entry may hold.
DataVals == {1, 2}

\* Tile heights and widths, and the width of W.
TileSizes == (1..2) \X (1..2)
WColsSet == {2}

\* ------------------------------------------------------------- vectors
\* A vector held in memory: the function is tabulated once, not re-evaluated
\* at every read.
Stored(f) == f @@ <<>>

Vec(n, v) == Stored([i \in 0..(n - 1) |-> v])

EmptyVec == Vec(0, 0)

RECURSIVE SumFn(_, _, _)
SumFn(f, lo, hi) == IF lo >= hi THEN 0 ELSE f[lo] + SumFn(f, lo + 1, hi)

\* All bijections of 0..n-1, as new -> old maps.
Perms(n) == {m \in [0..(n - 1) -> 0..(n - 1)] :
               \A a, b \in 0..(n - 1) : m[a] = m[b] => a = b}

IdentityMap(n) == Stored([i \in 0..(n - 1) |-> i])

\* ------------------------------------------------------------------- CSR
EmptyCSR(nr, nc) ==
  [nrows |-> nr, ncols |-> nc, nnz |-> 0,
   indptr |-> Vec(nr + 1, 0), indices |-> EmptyVec, data |-> EmptyVec]

\* Row that owns position idx of indices/data.
RowOf(X, idx) == CHOOSE i \in 0..(X.nrows - 1) :
                   X.indptr[i] <= idx /\ idx < X.indptr[i + 1]

\* indptr non-decreasing from 0 to nnz, every column in range.
ValidCSR(X) ==
  /\ X.indptr[0] = 0
  /\ X.indptr[X.nrows] = X.nnz
  /\ \A i \in 0..(X.nrows - 1) : X.indptr[i] <= X.indptr[i + 1]
  /\ \A idx \in 0..(X.nnz - 1) : X.indices[idx] >= 0 /\ X.indices[idx] < X.ncols

\* Columns non-decreasing inside every row.
SortedRows(X) ==
  \A i \in 0..(X.nrows - 1) :
    \A idx \in X.indptr[i]..(X.indptr[i + 1] - 2) :
      X.indices[idx] <= X.indices[idx + 1]

\* No row stores the same column twice.
NoDuplicates(X) ==
  \A i \in 0..(X.nrows - 1) :
    \A a, b \in X.indptr[i]..(X.indptr[i + 1] - 1) :
      X.indices[a] = X.indices[b] => a = b

\* The sparse matrix of the data model: one stored entry per position,
\* column-sorted rows.
WellFormed(X) == ValidCSR(X) /\ SortedRows(X) /\ NoDuplicates(X)

\* Append the stored entry (r, c, v) to the last non-empty position of X:
\* legal when (r, c) is not before the last stored entry in row-major order.
LastRow(X) == IF X.nnz = 0 THEN 0 ELSE RowOf(X, X.nnz - 1)

CanAppend(X, r, c) ==
  /\ r >= LastRow(X)
  /\ (X.nnz > 0 /\ r = LastRow(X)) => c >= X.indices[X.nnz - 1]

AppendEntry(X, r, c, v) ==
  [X EXCEPT !.nnz = X.nnz + 1,
            !.indptr = Stored([i \in 0..X.nrows |-> IF i > r THEN X.indptr[i] + 1 ELSE X.indptr[i]]),
            !.indices = Stored([idx \in 0..X.nnz |-> IF idx = X.nnz THEN c ELSE X.indices[idx]]),
            !.data = Stored([idx \in 0..X.nnz |-> IF idx = X.nnz THEN v ELSE X.data[idx]])]

\* ------------------------------------------------------ baseline multiply
spmm_baseline_throws(X, W_rows) == X.ncols # W_rows

spmm_baseline(X, W, W_rows, W_cols) ==
  Stored([p \in 0..(X.nrows * W_cols - 1) |->
     LET i == p \div W_cols
         j == p % W_cols
     IN  SumFn([idx \in X.indptr[i]..(X.indptr[i + 1] - 1) |->
                  X.data[idx] * W[X.indices[idx] * W_cols + j]],
               X.indptr[i], X.indptr[i + 1])])

\* ----------------------------------------------------------------- tiler
DENSE_TILE_THRESHOLD == [num |-> 1, den |-> 20]

\* Mutant: the quotient is rounded down, losing the clipped last tile.
CeilDiv_floor(a, b) == a \div b

CeilDiv(a, b) == (a + b - 1) \div b

\* int / int of C++: the quotient is truncated toward zero.
IntDiv(a, b) == IF a >= 0 THEN a \div b ELSE -((-a) \div b)

Min(a, b) == IF a < b THEN a ELSE b

num_row_tiles(X, T_R) == CeilDiv(X.nrows, T_R)
num_col_tiles(X, T_C) == CeilDiv(X.ncols, T_C)

\* Mutant: the column block is computed with the tile height.
TileHits_col_by_height(X, T_R, T_C, tile_idx) ==
  {idx \in 0..(X.nnz - 1) :
     LET i == RowOf(X, idx)
         j == X.indices[idx]
         rb == i \div T_R
         cb == j \div T_R
     IN  /\ rb >= 0 /\ rb < CeilDiv(X.nrows, T_R)
         /\ cb >= 0 /\ cb < CeilDiv(X.ncols, T_C)
         /\ rb * CeilDiv(X.ncols, T_C) + cb = tile_idx}

\* Mutant: the column of an entry is taken as one-based.
TileHits_one_based_col(X, T_R, T_C, tile_idx) ==
  {idx \in 0..(X.nnz - 1) :
     LET i == RowOf(X, idx)
         j == X.indices[idx] + 1
         rb == i \div T_R
         cb == j \div T_C
     IN  /\ rb >= 0 /\ rb < CeilDiv(X.nrows, T_R)
         /\ cb >= 0 /\ cb < CeilDiv(X.ncols, T_C)
         /\ rb * CeilDiv(X.ncols, T_C) + cb = tile_idx}

\* Stored entries whose increment lands on tile tile_idx.
TileHits(X, T_R, T_C, tile_idx) ==
  {idx \in 0..(X.nnz - 1) :
     LET i == RowOf(X, idx)
         j == X.indices[idx]
         rb == IntDiv(i, T_R)
         cb == IntDiv(j, T_C)
     IN  /\ rb >= 0 /\ rb < num_row_tiles(X, T_R)
         /\ cb >= 0 /\ cb < num_col_tiles(X, T_C)
         /\ rb * num_col_tiles(X, T_C) + cb = tile_idx}

make_2d_tiles(X, T_R, T_C) ==
  Stored([t \in 0..(num_row_tiles(X, T_R) * num_col_tiles(X, T_C) - 1) |->
     LET rb == t \div num_col_tiles(X, T_C)
         cb == t % num_col_tiles(X, T_C)
     IN  [row_start |-> rb * T_R,
          row_end |-> Min(rb * T_R + T_R, X.nrows),
          col_start |-> cb * T_C,
          col_end |-> Min(cb * T_C + T_C, X.ncols),
          nnz |-> Cardinality(TileHits(X, T_R, T_C, t)),
          is_dense |-> FALSE]])

NumTiles(tiles) == Cardinality(DOMAIN tiles)

\* Mutant: a tile exactly at the threshold is not dense.
DensityGE_strict(t, thr) ==
  LET rows == t.row_end - t.row_start
      cols == t.col_end - t.col_start
  IN  IF rows = 0 \/ cols = 0
        THEN 0 > thr.num
        ELSE t.nnz * thr.den > thr.num * rows * cols

\* Tile::density() >= threshold, with the threshold a fraction num/den.
DensityGE(t, thr) ==
  LET rows == t.row_end - t.row_start
      cols == t.col_end - t.col_start
  IN  IF rows = 0 \/ cols = 0
        THEN 0 >= thr.num
        ELSE t.nnz * thr.den >= thr.num * rows * cols

\* Mutant: a flag left true by an earlier classification is never cleared.
predict_tile_density_sticky(tiles, thr) ==
  LET out == Stored([t \in DOMAIN tiles |->
               [tiles[t] EXCEPT !.is_dense = tiles[t].is_dense \/ DensityGE(tiles[t], thr)]])
  IN  [tiles |-> out,
       dense_count |-> Cardinality({t \in DOMAIN out : out[t].is_dense}),
       sparse_count |-> Cardinality({t \in DOMAIN out : ~out[t].is_dense})]

predict_tile_density(tiles, thr) ==
  LET out == Stored([t \in DOMAIN tiles |-> [tiles[t] EXCEPT !.is_dense = DensityGE(tiles[t], thr)]])
  IN  [tiles |-> out,
       dense_count |-> Cardinality({t \in DOMAIN out : out[t].is_dense}),
       sparse_count |-> Cardinality({t \in DOMAIN out : ~out[t].is_dense})]

\* ------------------------------------------------------------ tiled spmm
\* Mutant: the tile adds the whole row, forgetting its column range.
TileRowSum_whole_row(X, W, W_cols, tile, i, j) ==
  SumFn([idx \in X.indptr[i]..(X.indptr[i + 1] - 1) |->
           X.data[idx] * W[X.indices[idx] * W_cols + j]],
        X.indptr[i], X.indptr[i + 1])

\* Row i of the tile: the entries of X's row i inside the tile's columns.
TileRowSum(X, W, W_cols, tile, i, j) ==
  SumFn([idx \in X.indptr[i]..(X.indptr[i + 1] - 1) |->
           LET k == X.indices[idx]
           IN  IF k >= tile.col_start /\ k < tile.col_end
                 THEN X.data[idx] * W[k * W_cols + j]
                 ELSE 0],
        X.indptr[i], X.indptr[i + 1])

dense_spmm_tile(X, W, W_cols, tile, Y, Y_cols) ==
  Stored([p \in DOMAIN Y |->
     LET i == p \div Y_cols
         j == p % Y_cols
     IN  IF i >= tile.row_start /\ i < tile.row_end /\ j < W_cols
           THEN Y[p] + TileRowSum(X, W, W_cols, tile, i, j)
           ELSE Y[p]])

\* The sparse branch of spmm_tiled's loop (same accumulation, written inline).
sparse_tile_inline(X, W, W_cols, tile, Y, Y_cols) ==
  Stored([p \in DOMAIN Y |->
     LET i == p \div Y_cols
         j == p % Y_cols
     IN  IF i >= tile.row_start /\ i < tile.row_end /\ j < W_cols
           THEN Y[p] + TileRowSum(X, W, W_cols, tile, i, j)
           ELSE Y[p]])

RECURSIVE tiled_loop(_, _, _, _, _, _, _)
tiled_loop(X, W, W_cols, tiles, t, Y, Y_cols) ==
  IF t >= NumTiles(tiles) THEN Y
  ELSE tiled_loop(X, W, W_cols, tiles, t + 1,
                  IF tiles[t].is_dense
                    THEN dense_spmm_tile(X, W, W_cols, tiles[t], Y, Y_cols)
                    ELSE sparse_tile_inline(X, W, W_cols, tiles[t], Y, Y_cols),
                  Y_cols)

spmm_tiled_throws(X, W_rows) == X.ncols # W_rows

spmm_tiled(X, W, W_rows, W_cols, T_R, T_C) ==
  LET tiles == predict_tile_density(make_2d_tiles(X, T_R, T_C), DENSE_TILE_THRESHOLD).tiles
  IN  [Y |-> tiled_loop(X, W, W_cols, tiles, 0, Vec(X.nrows * W_cols, 0), W_cols),
       num_tiles |-> NumTiles(tiles)]

\* ------------------------------------------------------------- std::sort
\* std::sort orders by the comparator and leaves the order of equivalent
\* elements unspecified.  SortOrder gives, for each output position, the input
\* position placed there; tie selects how equivalent elements come out: in
\* input order ("stable") or in reverse input order ("reversed").
Ties == {"stable", "reversed"}

SortRank(n, less(_, _), tie, q) ==
  Cardinality({a \in 0..(n - 1) : less(a, q)})
  + Cardinality({a \in 0..(n - 1) :
                   /\ ~less(a, q) /\ ~less(q, a)
                   /\ IF tie = "stable" THEN a < q ELSE a > q})

SortOrder(n, less(_, _), tie) ==
  Stored([p \in 0..(n - 1) |-> CHOOSE q \in 0..(n - 1) : SortRank(n, less, tie, q) = p])

\* The per-row sort by column index that closes every CSR permutation.
\* Mutant: the column indices are sorted, the values stay where they were.
sort_rows_by_col_indices_only(nrows, indptr, indices, data, tie) ==
  LET nnz == indptr[nrows]
      sorted_idx(i) == SortOrder(indptr[i + 1] - indptr[i],
                                 LAMBDA a, b : indices[indptr[i] + a] < indices[indptr[i] + b],
                                 tie)
  IN  [indices |-> Stored([idx \in 0..(nnz - 1) |->
                      LET i == CHOOSE r \in 0..(nrows - 1) :
                                 indptr[r] <= idx /\ idx < indptr[r + 1]
                      IN  indices[indptr[i] + sorted_idx(i)[idx - indptr[i]]]]),
       data |-> data]

sort_rows_by_col(nrows, indptr, indices, data, tie) ==
  LET nnz == indptr[nrows]
      ord == Stored([i \in 0..(nrows - 1) |->
                       SortOrder(indptr[i + 1] - indptr[i],
                                 LAMBDA a, b : indices[indptr[i] + a] < indices[indptr[i] + b],
                                 tie)])
      src == Stored([idx \in 0..(nnz - 1) |->
                       LET i == CHOOSE r \in 0..(nrows - 1) :
                                  indptr[r] <= idx /\ idx < indptr[r + 1]
                       IN  indptr[i] + ord[i][idx - indptr[i]]])
  IN  [indices |-> Stored([idx \in 0..(nnz - 1) |-> indices[src[idx]]]),
       data |-> Stored([idx \in 0..(nnz - 1) |-> data[src[idx]]])]

\* ----------------------------------------------------------- permutation
MapLen(m) == Cardinality(DOMAIN m)

compute_nnz_per_row(X) ==
  Stored([i \in 0..(X.nrows - 1) |-> X.indptr[i + 1] - X.indptr[i]])

compute_nnz_per_col(X) ==
  Stored([c \in 0..(X.ncols - 1) |->
     Cardinality({idx \in 0..(X.nnz - 1) : X.indices[idx] = c})])

create_row_new2old(nnz_per_row, descending, tie) ==
  SortOrder(Cardinality(DOMAIN nnz_per_row),
            LAMBDA a, b : IF descending THEN nnz_per_row[a] > nnz_per_row[b]
                                        ELSE nnz_per_row[a] < nnz_per_row[b],
            tie)

create_col_new2old(nnz_per_col, descending, tie) ==
  SortOrder(Cardinality(DOMAIN nnz_per_col),
            LAMBDA a, b : IF descending THEN nnz_per_col[a] > nnz_per_col[b]
                                        ELSE nnz_per_col[a] < nnz_per_col[b],
            tie)

permute_csr_rows_throws(X, row_new2old) == MapLen(row_new2old) # X.nrows

permute_csr_rows(X, row_new2old, tie) ==
  LET row_nnz(i_new) == X.indptr[row_new2old[i_new] + 1] - X.indptr[row_new2old[i_new]]
      \* first pass: Xp.indptr[i_new + 1] = Xp.indptr[i_new] + row_nnz
      ptr == Stored([i \in 0..X.nrows |->
                SumFn([a \in 0..(i - 1) |-> row_nnz(a)], 0, i)])
      \* second pass: new row i_new receives the entries of old row i_old, in order;
      \* a position no row writes keeps the 0 of resize()
      copied == Stored([d \in 0..(X.nnz - 1) |-> d < ptr[X.nrows]])
      from == Stored([d \in 0..(X.nnz - 1) |->
                IF copied[d]
                  THEN LET i_new == CHOOSE i \in 0..(X.nrows - 1) :
                                      ptr[i] <= d /\ d < ptr[i + 1]
                       IN  X.indptr[row_new2old[i_new]] + (d - ptr[i_new])
                  ELSE 0])
      ind == Stored([d \in 0..(X.nnz - 1) |-> IF copied[d] THEN X.indices[from[d]] ELSE 0])
      dat == Stored([d \in 0..(X.nnz - 1) |-> IF copied[d] THEN X.data[from[d]] ELSE 0])
      clipped == Stored([i \in 0..X.nrows |-> Min(ptr[i], X.nnz)])
      sorted == sort_rows_by_col(X.nrows, clipped, ind, dat, tie)
  IN  [nrows |-> X.nrows, ncols |-> X.ncols, nnz |-> X.nnz,
       indptr |-> ptr, indices |-> sorted.indices, data |-> sorted.data]

\* Mutant: Wp[row_new2old[i], :] = W[i, :].
permute_weight_rows_scatter(W, W_rows, W_cols, row_new2old) ==
  Stored([p \in 0..(W_rows * W_cols - 1) |->
     LET src == CHOOSE i \in 0..(W_rows - 1) : row_new2old[i] = p \div W_cols
     IN  W[src * W_cols + (p % W_cols)]])

InRange(m, n) == \A i \in DOMAIN m : m[i] >= 0 /\ m[i] < n

permute_weight_rows_throws(W, W_rows, W_cols, row_new2old) ==
  \/ MapLen(row_new2old) # W_rows
  \/ Cardinality(DOMAIN W) # W_rows * W_cols
  \/ ~InRange(row_new2old, W_rows)

permute_weight_rows(W, W_rows, W_cols, row_new2old) ==
  Stored([p \in 0..(W_rows * W_cols - 1) |->
     W[row_new2old[p \div W_cols] * W_cols + (p % W_cols)]])

\* Mutant: un-permuting moves the rows the same way permuting does.
unpermute_csr_rows_forward(Xp, row_new2old, tie) ==
  permute_csr_rows(Xp, row_new2old, tie)

unpermute_csr_rows_throws(Xp, row_new2old) ==
  \/ MapLen(row_new2old) # Xp.nrows
  \/ ~InRange(row_new2old, Xp.nrows)

unpermute_csr_rows(Xp, row_new2old, tie) ==
  LET row_nnz(i_new) == Xp.indptr[i_new + 1] - Xp.indptr[i_new]
      \* first pass and cumulative sum: indptr[i + 1] counts the rows sent to 0..i
      ptr == Stored([i \in 0..Xp.nrows |->
                SumFn([a \in 0..(Xp.nrows - 1) |->
                         IF row_new2old[a] < i THEN row_nnz(a) ELSE 0], 0, Xp.nrows)])
      \* second pass: write_ptr[i_old]++ ; rows sent to the same i_old follow each other
      dest == Stored([idx \in 0..(Xp.nnz - 1) |->
        LET i_new == RowOf(Xp, idx)
            i_old == row_new2old[i_new]
        IN  ptr[i_old]
            + SumFn([a \in 0..(i_new - 1) |->
                       IF row_new2old[a] = i_old THEN row_nnz(a) ELSE 0], 0, i_new)
            + (idx - Xp.indptr[i_new])])
      from == Stored([d \in 0..(Xp.nnz - 1) |->
                        CHOOSE idx \in 0..(Xp.nnz - 1) : dest[idx] = d])
      ind == Stored([d \in 0..(Xp.nnz - 1) |-> Xp.indices[from[d]]])
      dat == Stored([d \in 0..(Xp.nnz - 1) |-> Xp.data[from[d]]])
      sorted == sort_rows_by_col(Xp.nrows, ptr, ind, dat, tie)
  IN  [nrows |-> Xp.nrows, ncols |-> Xp.ncols, nnz |-> Xp.nnz,
       indptr |-> ptr, indices |-> sorted.indices, data |-> sorted.data]

\* Mutant: Y[i_new, :] = Y_prime[row_new2old[i_new], :].
unpermute_rows_forward(Y_prime, Y_rows, Y_cols, row_new2old) ==
  Stored([p \in 0..(Y_rows * Y_cols - 1) |->
     Y_prime[row_new2old[p \div Y_cols] * Y_cols + (p % Y_cols)]])

unpermute_rows_throws(Y_prime, Y_rows, Y_cols, row_new2old) ==
  \/ MapLen(row_new2old) # Y_rows
  \/ Cardinality(DOMAIN Y_prime) # Y_rows * Y_cols
  \/ ~InRange(row_new2old, Y_rows)

\* Y[i_old, :] = Y_prime[i_new, :] for i_new ascending: the last writer of a
\* row stays, a row nobody writes keeps the 0 of the vector's construction.
unpermute_rows(Y_prime, Y_rows, Y_cols, row_new2old) ==
  Stored([p \in 0..(Y_rows * Y_cols - 1) |->
     LET writers == {i_new \in 0..(Y_rows - 1) : row_new2old[i_new] = p \div Y_cols}
     IN  IF writers = {} THEN 0
         ELSE Y_prime[(CHOOSE w \in writers : \A v \in writers : v <= w) * Y_cols
                      + (p % Y_cols)]])

\* Mutant: the column map is used as given, not inverted.
col_old2new_of_not_inverted(col_new2old, ncols) ==
  Stored([old \in 0..(ncols - 1) |-> col_new2old[old]])

\* col_old2new[col_new2old[new_col]] = new_col for new_col ascending.
col_old2new_of(col_new2old, ncols) ==
  Stored([old \in 0..(ncols - 1) |->
     LET writers == {n \in 0..(ncols - 1) : col_new2old[n] = old}
     IN  IF writers = {} THEN 0
         ELSE CHOOSE w \in writers : \A v \in writers : v <= w])

permute_csr_cols_throws(X, col_new2old) ==
  \/ MapLen(col_new2old) # X.ncols
  \/ ~InRange(col_new2old, X.ncols)
  \/ \E idx \in 0..(X.nnz - 1) : X.indices[idx] < 0 \/ X.indices[idx] >= X.ncols

permute_csr_cols(X, col_new2old, tie) ==
  LET col_old2new == col_old2new_of(col_new2old, X.ncols)
      ind == Stored([idx \in 0..(X.nnz - 1) |-> col_old2new[X.indices[idx]]])
      sorted == sort_rows_by_col(X.nrows, X.indptr, ind, X.data, tie)
  IN  [nrows |-> X.nrows, ncols |-> X.ncols, nnz |-> X.nnz,
       indptr |-> X.indptr, indices |-> sorted.indices, data |-> sorted.data]

\* Mutant: un-permuting maps the columns the same way permuting does.
unpermute_csr_cols_forward(Xp, col_new2old, tie) ==
  permute_csr_cols(Xp, col_new2old, tie)

unpermute_csr_cols_throws(Xp, col_new2old) ==
  \/ MapLen(col_new2old) # Xp.ncols
  \/ ~InRange(col_new2old, Xp.ncols)
  \/ \E idx \in 0..(Xp.nnz - 1) : Xp.indices[idx] < 0 \/ Xp.indices[idx] >= Xp.ncols

unpermute_csr_cols(Xp, col_new2old, tie) ==
  LET ind == Stored([idx \in 0..(Xp.nnz - 1) |-> col_new2old[Xp.indices[idx]]])
      sorted == sort_rows_by_col(Xp.nrows, Xp.indptr, ind, Xp.data, tie)
  IN  [nrows |-> Xp.nrows, ncols |-> Xp.ncols, nnz |-> Xp.nnz,
       indptr |-> Xp.indptr, indices |-> sorted.indices, data |-> sorted.data]

\* ---------------------------------------------------------- tile pipeline
\* Positions of X's row i whose column lies in the tile, in stored order.
\* Mutant: an entry in the tile's first column is left out.
TileRowIdx_exclusive_start(X, tile, i) ==
  {idx \in X.indptr[i]..(X.indptr[i + 1] - 1) :
     X.indices[idx] > tile.col_start /\ X.indices[idx] < tile.col_end}

TileRowIdx(X, tile, i) ==
  {idx \in X.indptr[i]..(X.indptr[i + 1] - 1) :
     X.indices[idx] >= tile.col_start /\ X.indices[idx] < tile.col_end}

extract_tile_csr(X, tile) ==
  LET nr == tile.row_end - tile.row_start
      row_nnz(tr) == Cardinality(TileRowIdx(X, tile, tile.row_start + tr))
      ptr == Stored([i \in 0..nr |-> SumFn([a \in 0..(i - 1) |-> row_nnz(a)], 0, i)])
      total == ptr[nr]
      \* the (d - ptr[tile_row])-th kept entry of the row
      from == Stored([d \in 0..(total - 1) |->
        LET tile_row == CHOOSE i \in 0..(nr - 1) : ptr[i] <= d /\ d < ptr[i + 1]
            S == TileRowIdx(X, tile, tile.row_start + tile_row)
        IN  CHOOSE idx \in S :
              Cardinality({b \in S : b < idx}) = d - ptr[tile_row]])
  IN  [nrows |-> nr, ncols |-> tile.col_end - tile.col_start, nnz |-> total,
       indptr |-> ptr,
       indices |-> Stored([d \in 0..(total - 1) |-> X.indices[from[d]] - tile.col_start]),
       data |-> Stored([d \in 0..(total - 1) |-> X.data[from[d]]])]

\* Mutant: row i of the slice is row i of W, whatever the tile's first column.
extract_tile_W_no_offset(W, W_rows, W_cols, tile) ==
  Stored([p \in 0..((tile.col_end - tile.col_start) * W_cols - 1) |->
     LET orig_row == p \div W_cols
     IN  IF orig_row >= 0 /\ orig_row < W_rows
           THEN W[orig_row * W_cols + (p % W_cols)]
           ELSE 0])

\* Positions of W the copy loop of extract_tile_W reads.
extract_tile_W_reads(W_rows, W_cols, tile) ==
  {(tile.col_start + i) * W_cols + j :
     i \in {a \in 0..(tile.col_end - tile.col_start - 1) :
              tile.col_start + a >= 0 /\ tile.col_start + a < W_rows},
     j \in 0..(W_cols - 1)}

extract_tile_W(W, W_rows, W_cols, tile) ==
  Stored([p \in 0..((tile.col_end - tile.col_start) * W_cols - 1) |->
     LET orig_row == tile.col_start + (p \div W_cols)
     IN  IF orig_row >= 0 /\ orig_row < W_rows
           THEN W[orig_row * W_cols + (p % W_cols)]
           ELSE 0])

\* X_dense[i * K + k] = val for the row's entries in stored order: the last
\* entry stored for a cell is the one that stays.
materialize_csr_to_dense(X_tile) ==
  Stored([p \in 0..(X_tile.nrows * X_tile.ncols - 1) |->
     LET i == p \div X_tile.ncols
         k == p % X_tile.ncols
         writers == {idx \in X_tile.indptr[i]..(X_tile.indptr[i + 1] - 1) :
                       X_tile.indices[idx] = k}
     IN  IF writers = {} THEN 0
         ELSE X_tile.data[CHOOSE w \in writers : \A v \in writers : v <= w]])

permute_dense_rows(X_dense, M, K, row_new2old) ==
  Stored([p \in 0..(M * K - 1) |-> X_dense[row_new2old[p \div K] * K + (p % K)]])

permute_dense_cols(X_dense, M, K, col_new2old) ==
  Stored([p \in 0..(M * K - 1) |-> X_dense[(p \div K) * K + col_new2old[p % K]]])

dense_spmm_cpu_tile(X_dense, W_dense, M, K, N) ==
  Stored([p \in 0..(M * N - 1) |->
     SumFn([k \in 0..(K - 1) |-> X_dense[(p \div N) * K + k] * W_dense[k * N + (p % N)]],
           0, K)])

dense_perm_spmm_tile(X_tile, W_tile, W_tile_rows, W_cols, tie) ==
  LET M_tile == X_tile.nrows
      K_tile == X_tile.ncols
      N == W_cols
      X_dense == materialize_csr_to_dense(X_tile)
      row_new2old == create_row_new2old(compute_nnz_per_row(X_tile), TRUE, tie)
      X_dense_row_permuted == permute_dense_rows(X_dense, M_tile, K_tile, row_new2old)
      nnz_per_col == Stored([k \in 0..(K_tile - 1) |->
                        Cardinality({i \in 0..(M_tile - 1) :
                                       X_dense_row_permuted[i * K_tile + k] # 0})])
      col_new2old == create_col_new2old(nnz_per_col, TRUE, tie)
      X_dense_row_col_permuted ==
        permute_dense_cols(X_dense_row_permuted, M_tile, K_tile, col_new2old)
      W_tile_row_permuted == permute_weight_rows(W_tile, W_tile_rows, W_cols, col_new2old)
      Y_tile_permuted ==
        dense_spmm_cpu_tile(X_dense_row_col_permuted, W_tile_row_permuted, M_tile, K_tile, N)
  IN  unpermute_rows(Y_tile_permuted, M_tile, N, row_new2old)

sparse_spmm_tile(X_tile, W_tile, W_tile_rows, W_cols) ==
  spmm_baseline(X_tile, W_tile, W_tile_rows, W_cols)

\* The driver routes on the tile's density against the hardware threshold.
RoutesDense(tile) == DensityGE(tile, DENSE_TILE_THRESHOLD)

\* Partial result of one tile as the driver computes it.
tile_result(X, W, W_rows, W_cols, tile, tie) ==
  LET X_tile == extract_tile_csr(X, tile)
      W_tile == extract_tile_W(W, W_rows, W_cols, tile)
      W_tile_rows == tile.col_end - tile.col_start
  IN  IF RoutesDense(tile)
        THEN dense_perm_spmm_tile(X_tile, W_tile, W_tile_rows, W_cols, tie)
        ELSE sparse_spmm_tile(X_tile, W_tile, W_tile_rows, W_cols)

\* Mutant: the accumulation loop runs over every row of the output.
accumulate_cells_all_rows(tile, Y_cols) ==
  {global_row * Y_cols + j : global_row \in 0..(tile.row_end - 1), j \in 0..(Y_cols - 1)}

\* The cells of Y_final the accumulation loop of one tile adds to.
accumulate_cells(tile, Y_cols) ==
  {global_row * Y_cols + j :
     global_row \in tile.row_start..(tile.row_end - 1), j \in 0..(Y_cols - 1)}

\* Mutant: only the first row of the tile's block is added.
accumulate_tile_first_row(Y_fin, Y_tile, tile, Y_cols) ==
  Stored([p \in DOMAIN Y_fin |->
     IF p \div Y_cols = tile.row_start
       THEN Y_fin[p] + Y_tile[p % Y_cols]
       ELSE Y_fin[p]])

\* Mutant: the tile's block is assigned over the output rows, not added.
accumulate_tile_overwrite(Y_fin, Y_tile, tile, Y_cols) ==
  Stored([p \in DOMAIN Y_fin |->
     LET global_row == p \div Y_cols
     IN  IF global_row >= tile.row_start /\ global_row < tile.row_end
           THEN Y_tile[(global_row - tile.row_start) * Y_cols + (p % Y_cols)]
           ELSE Y_fin[p]])

\* Y_final[global_row * Y_cols + j] += Y_tile[i * Y_cols + j]
accumulate_tile(Y_fin, Y_tile, tile, Y_cols) ==
  Stored([p \in DOMAIN Y_fin |->
     LET global_row == p \div Y_cols
     IN  IF global_row >= tile.row_start /\ global_row < tile.row_end
           THEN Y_fin[p] + Y_tile[(global_row - tile.row_start) * Y_cols + (p % Y_cols)]
           ELSE Y_fin[p]])

\* Y_final after the driver's loop has processed tiles t, t+1, ... in the
\* order of the list.
RECURSIVE driver_loop(_, _, _, _, _, _, _, _)
driver_loop(X, W, W_rows, W_cols, tiles, tie, t, Y_fin) ==
  IF t >= NumTiles(tiles) THEN Y_fin
  ELSE driver_loop(X, W, W_rows, W_cols, tiles, tie, t + 1,
         accumulate_tile(Y_fin, tile_result(X, W, W_rows, W_cols, tiles[t], tie),
                         tiles[t], W_cols))

\* ------------------------------------------------------ parallel loops
\* The cell of Y the worker of row i addresses for column j.
\* Mutant: every worker addresses row 0.
WorkerCell_shared(i, j, Y_cols) == j

WorkerCell(i, j, Y_cols) == i * Y_cols + j

\* Steps the worker of row i takes.  spmm_baseline: for every stored entry of
\* the row and every j, a read of Y[i, j] and a write of it (the += is no
\* atomic update).  dense_spmm_cpu_tile: one write of Y_dense[i, j] per j.
WorkerSteps(o, X, i, W_cols) ==
  IF o = "spmm_baseline"
    THEN 2 * (X.indptr[i + 1] - X.indptr[i]) * W_cols
    ELSE W_cols

\* ------------------------------------------------------- driver metrics
SIZEOF_FLOAT == 4
SIZEOF_INT == 4

\* The counters of process_tiles_with_predictor before the first tile.
ZeroMetrics == [total_nnz |-> 0, total_flops |-> 0, total_bytes |-> 0,
                cpu_dense_tiles |-> 0]

\* X_tile.nnz as the first pass of extract_tile_csr leaves it.
extract_tile_nnz(X, tile) ==
  SumFn([i \in tile.row_start..(tile.row_end - 1) |->
           Cardinality(TileRowIdx(X, tile, i))],
        tile.row_start, tile.row_end)

\* The counters after one more tile (built without USE_CUDA), from the nnz
\* and the number of rows of the extracted tile.
tile_metrics(m, X_tile_nnz, X_tile_nrows, W_tile_rows, W_cols, dense) ==
  LET bytes_X_data == X_tile_nnz * SIZEOF_FLOAT
      bytes_X_indices == X_tile_nnz * SIZEOF_INT
      bytes_X_indptr == (X_tile_nrows + 1) * SIZEOF_INT
      bytes_W == W_tile_rows * W_cols * SIZEOF_FLOAT
      bytes_Y == X_tile_nrows * W_cols * SIZEOF_FLOAT * 2
  IN  [total_nnz |-> m.total_nnz + X_tile_nnz,
       total_flops |-> m.total_flops + 2 * X_tile_nnz * W_cols,
       total_bytes |-> m.total_bytes + bytes_X_data + bytes_X_indices
                         + bytes_X_indptr + bytes_W + bytes_Y,
       cpu_dense_tiles |-> m.cpu_dense_tiles + (IF dense THEN 1 ELSE 0)]

\* ----------------------------------------------------------- metrics log
\* A line of the log: the prefix it starts with, the number after the prefix
\* and whether that number parses (stod / stoull succeed).
LogLine(k, v) == [key |-> k, val |-> v, ok |-> TRUE]

\* Prefixes the metrics rewrite drops or replaces.
MetricPrefixes == {"spmm compute time: ", "spmm nnz: ", "spmm flops: ",
                   "spmm bytes: ", "spmm performance:"}

\* Value of the last parsable line with prefix k, 0 when there is none.
RECURSIVE existing_value(_, _, _)
existing_value(lg, k, n) ==
  IF n = 0 THEN 0
  ELSE IF lg[n].key = k /\ lg[n].ok THEN lg[n].val
  ELSE existing_value(lg, k, n - 1)

\* log_openmp_threads_tilepredpermspmm at the start of the driver.
log_start(annotation, lg, max_threads) ==
  IF annotation = "" THEN lg
  ELSE Append(lg, LogLine("OpenMP threads: ", max_threads))

\* The two logging blocks at the end of the driver: the dense-tile counts and
\* the matrix density are appended, then the file is rewritten with the
\* metric lines replaced by the accumulated ones.
log_finish(annotation, lg, m, X_nnz, compute_time_ms) ==
  IF annotation = "" THEN lg
  ELSE
    LET appended == lg \o <<LogLine("CUDA dense tiles: ", 0),
                            LogLine("CPU dense tiles: ", m.cpu_dense_tiles),
                            LogLine("matrix_density: ", X_nnz)>>
        IsPreserved(l) == l.key \notin MetricPrefixes
        preserved_lines == SelectSeq(appended, IsPreserved)
        n == Len(appended)
        total_time_ms == existing_value(appended, "spmm compute time: ", n) + compute_time_ms
        total_flops_accum == existing_value(appended, "spmm flops: ", n) + m.total_flops
        total_bytes_accum == existing_value(appended, "spmm bytes: ", n) + m.total_bytes
    IN  preserved_lines
          \o <<LogLine("spmm compute time: ", total_time_ms),
               LogLine("spmm nnz: ", existing_value(appended, "spmm nnz: ", n) + m.total_nnz),
               LogLine("spmm flops: ", total_flops_accum),
               LogLine("spmm bytes: ", total_bytes_accum)>>
          \o (IF total_time_ms > 0 /\ (total_flops_accum > 0 \/ total_bytes_accum > 0)
                THEN <<LogLine("spmm performance:", 0)>>
                ELSE <<>>)

\* ---------------------------------------------------------- state machine
VARIABLES
  pc,            \* "load" while X is being stored, then the operation that ran
  X,             \* the sparse matrix
  W, W_rows, W_cols,        \* the dense matrix, row-major
  tile_rows, tile_cols,     \* TilingConfig
  threshold,     \* the threshold handed to predict_tile_density
  row_new2old, col_new2old, \* permutation maps
  tie,           \* how std::sort left equivalent elements in this run
  method,        \* the multiply under test: "baseline" or "tiled"
  tiles,         \* the classified tile list
  tile_pos,      \* driver: index of the next tile
  Y_final,       \* driver: the accumulator
  routes,        \* driver: pipeline taken by each processed tile
  Y_base, Y_out, \* reference result and result under test
  X_perm, X_out, \* permuted matrix and recovered matrix
  status,        \* "ok", "error" when the operation threw, "ub" when it ran
                 \* into undefined behaviour (an access outside a vector)
  dense_count, sparse_count,  \* the pair returned by predict_tile_density
  tiles_in,      \* the tile list as it was handed to the last classification
  prev_class,    \* result of the classification before the last one
  op,            \* name of the operation that ran
  nnz_counts,    \* counts handed to create_row_new2old / create_col_new2old
  descending,    \* its ordering flag
  W_slice,       \* buffer returned by extract_tile_W
  W_reads,       \* positions of W that extract_tile_W read
  log_annotation,  \* driver: name of the metrics log, "" for no logging
  log,           \* the lines of the metrics log file
  metrics,       \* driver: total_nnz, total_flops, total_bytes, cpu_dense_tiles
  wpos,          \* parallel loop: steps each row's worker has taken
  wtmp,          \* parallel loop: the value each worker last read from Y
  cell_writes,   \* parallel loop: cells of Y each worker has written
  cell_reads,    \* parallel loop: cells of Y each worker has read
  regions        \* driver: cells of Y_final each processed tile was added to

inputs == <<W, W_rows, W_cols, tile_rows, tile_cols, threshold,
            row_new2old, col_new2old, tie, method>>
driver == <<tiles, tile_pos, Y_final, routes>>
outputs == <<Y_base, Y_out, X_perm, X_out, status>>
classify == <<dense_count, sparse_count, tiles_in, prev_class>>
call == <<op, nnz_counts, descending>>
slice == <<W_slice, W_reads>>
logging == <<log_annotation, log>>
workers == <<wpos, wtmp, cell_writes, cell_reads>>
aux == <<slice, logging, metrics, workers, regions>>
extra == <<classify, call, aux>>
vars == <<pc, X, inputs, driver, outputs, extra>>

\* omp_get_max_threads() and the measured compute time in ms, both set by
\* the machine the driver runs on.
OmpThreads == {1, 4}
ComputeTimes == {0, 1}

\* The threshold of hw_config and the one of pim_defaults.
Thresholds == {DENSE_TILE_THRESHOLD, [num |-> 1, den |-> 2]}

\* Dense buffers of n cells: two ramps modulo 3 (1,2,0,... and 2,1,0,...).
WSeeds == {<<1, 1>>, <<2, 2>>}
WBuf(n, seed) == Stored([p \in 0..(n - 1) |-> (seed[1] * p + seed[2]) % 3])
WSet(n) == {WBuf(n, seed) : seed \in WSeeds}

\* The driver is also run on one wide row cut into a tile of 21 cells and a
\* tile of 1 cell: a single entry in 21 cells is below the 0.05 threshold.
WideShape == <<1, 22>>
WideTile == <<1, 21>>
DriverShapes == Shapes \cup {WideShape}
\* Columns the loader fills in the wide row: both ends of the large tile and
\* the small tile.
WideCols == {0, 20, 21}
LoadCols(M) == IF <<M.nrows, M.ncols>> = WideShape THEN WideCols ELSE 0..(M.ncols - 1)
DriverTileSizes(M) == IF <<M.nrows, M.ncols>> = WideShape THEN {WideTile} ELSE TileSizes

\* No classification has run yet.
NoClass == [tiles |-> EmptyVec, dense_count |-> 0, sparse_count |-> 0,
            threshold |-> DENSE_TILE_THRESHOLD]

\* Variables no input of a run has touched yet.
InitBlank ==
  /\ W = EmptyVec /\ W_rows = 0 /\ W_cols = 0
  /\ tile_rows = 1 /\ tile_cols = 1
  /\ threshold = DENSE_TILE_THRESHOLD
  /\ row_new2old = EmptyVec /\ col_new2old = EmptyVec
  /\ tie = "stable"
  /\ method = "baseline"
  /\ tile_pos = 0 /\ Y_final = EmptyVec /\ routes = EmptyVec
  /\ Y_base = EmptyVec /\ Y_out = EmptyVec
  /\ X_perm = EmptyCSR(0, 0) /\ X_out = EmptyCSR(0, 0)
  /\ status = "ok"
  /\ dense_count = 0 /\ sparse_count = 0
  /\ prev_class = NoClass
  /\ op = "none"
  /\ W_slice = EmptyVec /\ W_reads = {}
  /\ log_annotation = "" /\ log = <<>>
  /\ metrics = ZeroMetrics
  /\ wpos = EmptyVec /\ wtmp = EmptyVec
  /\ cell_writes = EmptyVec /\ cell_reads = EmptyVec
  /\ regions = EmptyVec

InitShapes(S) ==
  /\ pc = "load"
  /\ \E sh \in S : X = EmptyCSR(sh[1], sh[2])
  /\ tiles = EmptyVec /\ tiles_in = EmptyVec
  /\ nnz_counts = EmptyVec /\ descending = FALSE
  /\ InitBlank

Init == InitShapes(Shapes)

InitDriver == InitShapes(DriverShapes)

\* The loader stores one more entry, rows in order and columns in order
\* inside a row (the same cell may be stored again).
LoadEntry ==
  /\ UNCHANGED extra
  /\ pc = "load"
  /\ X.nnz < MaxNnz
  /\ \E r \in 0..(X.nrows - 1), c \in LoadCols(X), v \in DataVals :
       /\ CanAppend(X, r, c)
       /\ X' = AppendEntry(X, r, c, v)
  /\ UNCHANGED <<pc, inputs, driver, outputs>>

\* The loader stores an explicit zero.
LoadZero ==
  /\ UNCHANGED extra
  /\ pc = "load"
  /\ X.nnz < MaxNnz
  /\ \E r \in 0..(X.nrows - 1), c \in LoadCols(X) :
       /\ CanAppend(X, r, c)
       /\ X' = AppendEntry(X, r, c, 0)
  /\ UNCHANGED <<pc, inputs, driver, outputs>>

\* test1_tiled_spmm: baseline and tiled multiply of the same X and W.
TiledSpmm ==
  /\ UNCHANGED extra
  /\ pc = "load"
  /\ \E wc \in WColsSet, ts \in TileSizes :
       \E w \in WSet(X.ncols * wc) :
         /\ W' = w /\ W_rows' = X.ncols /\ W_cols' = wc
         /\ tile_rows' = ts[1] /\ tile_cols' = ts[2]
         /\ IF spmm_baseline_throws(X, X.ncols) \/ spmm_tiled_throws(X, X.ncols)
              THEN status' = "error" /\ UNCHANGED <<Y_base, Y_out>>
              ELSE /\ status' = "ok"
                   /\ Y_base' = spmm_baseline(X, w, X.ncols, wc)
                   /\ Y_out' = spmm_tiled(X, w, X.ncols, wc, ts[1], ts[2]).Y
  /\ pc' = "tiled"
  /\ UNCHANGED <<X, threshold, row_new2old, col_new2old, tie, method, driver, X_perm, X_out>>

\* test_run5: tile X, classify, then hand the tiles to the driver.
DriverBegin ==
  /\ pc = "load"
  /\ \E wc \in WColsSet, ts \in DriverTileSizes(X), thr \in Thresholds, tb \in Ties :
       \E w \in WSet(X.ncols * wc) :
         /\ W' = w /\ W_rows' = X.ncols /\ W_cols' = wc
         /\ tile_rows' = ts[1] /\ tile_cols' = ts[2]
         /\ threshold' = thr /\ tie' = tb
         /\ tiles' = predict_tile_density(make_2d_tiles(X, ts[1], ts[2]), thr).tiles
         /\ Y_final' = Vec(X.nrows * wc, 0)
         /\ Y_base' = spmm_baseline(X, w, X.ncols, wc)
  /\ IF log_annotation = ""
       THEN UNCHANGED log
       ELSE \E th \in OmpThreads : log' = log_start(log_annotation, log, th)
  /\ metrics' = ZeroMetrics
  /\ regions' = EmptyVec
  /\ tile_pos' = 0
  /\ routes' = EmptyVec
  /\ pc' = "driver"
  /\ UNCHANGED <<X, row_new2old, col_new2old, method, Y_out, X_perm, X_out, status,
                 classify, call, slice, log_annotation, workers>>

\* Mutant: with logging on, a tile's block is scaled by the tiles counted
\* so far.
DriverYTile_counted ==
  LET Y_tile == tile_result(X, W, W_rows, W_cols, tiles[tile_pos], tie)
  IN  IF log_annotation = "" THEN Y_tile
      ELSE Stored([p \in DOMAIN Y_tile |-> Y_tile[p] * (1 + metrics.total_nnz)])

\* Y_tile of the tile the driver's loop is at.
DriverYTile == tile_result(X, W, W_rows, W_cols, tiles[tile_pos], tie)

\* One iteration of the driver's loop over the tiles.
DriverStep ==
  /\ pc = "driver"
  /\ tile_pos < NumTiles(tiles)
  /\ LET tile == tiles[tile_pos]
         Y_tile == DriverYTile
     IN  /\ Y_final' = accumulate_tile(Y_final, Y_tile, tile, W_cols)
         /\ metrics' = tile_metrics(metrics, extract_tile_nnz(X, tile),
                                    tile.row_end - tile.row_start,
                                    tile.col_end - tile.col_start, W_cols,
                                    RoutesDense(tile))
         /\ regions' = Stored([t \in 0..tile_pos |->
                          IF t = tile_pos THEN accumulate_cells(tile, W_cols)
                                          ELSE regions[t]])
         /\ routes' = Stored([t \in 0..tile_pos |->
                         IF t = tile_pos
                           THEN (IF RoutesDense(tile) THEN "dense" ELSE "sparse")
                           ELSE routes[t]])
  /\ tile_pos' = tile_pos + 1
  /\ UNCHANGED <<pc, X, inputs, tiles, outputs, classify, call, slice, logging, workers>>

\* The driver returns Y_final.
DriverReturn ==
  /\ pc = "driver"
  /\ tile_pos = NumTiles(tiles)
  /\ IF log_annotation = ""
       THEN UNCHANGED log
       ELSE \E ms \in ComputeTimes :
              log' = log_finish(log_annotation, log, metrics, X.nnz, ms)
  /\ Y_out' = Y_final
  /\ pc' = "driver_done"
  /\ UNCHANGED <<X, inputs, driver, Y_base, X_perm, X_out, status,
                 classify, call, slice, log_annotation, metrics, workers, regions>>

NextTiled == LoadEntry \/ TiledSpmm

SpecTiled == Init /\ [][NextTiled]_vars

NextDriver == LoadEntry \/ DriverBegin \/ DriverStep \/ DriverReturn

SpecDriver == InitDriver /\ [][NextDriver]_vars

\* ------------------------------------------------- permutation workflows
\* test_permute_X_datasets: permute the rows of X, then un-permute them.
RowRoundTrip ==
  /\ UNCHANGED extra
  /\ pc = "load"
  /\ \E m \in Perms(X.nrows), tb \in Ties :
       /\ row_new2old' = m /\ tie' = tb
       /\ IF permute_csr_rows_throws(X, m) \/ unpermute_csr_rows_throws(X, m)
            THEN status' = "error" /\ UNCHANGED <<X_perm, X_out>>
            ELSE /\ status' = "ok"
                 /\ X_perm' = permute_csr_rows(X, m, tb)
                 /\ X_out' = unpermute_csr_rows(permute_csr_rows(X, m, tb), m, tb)
  /\ pc' = "row_roundtrip"
  /\ UNCHANGED <<X, W, W_rows, W_cols, tile_rows, tile_cols, threshold, col_new2old,
                 method, driver, Y_base, Y_out>>

\* test_perm_2d: permute rows then columns, un-permute columns then rows.
RowColRoundTrip ==
  /\ UNCHANGED extra
  /\ pc = "load"
  /\ \E r \in Perms(X.nrows), c \in Perms(X.ncols), tb \in Ties :
       /\ row_new2old' = r /\ col_new2old' = c /\ tie' = tb
       /\ IF permute_csr_rows_throws(X, r) \/ permute_csr_cols_throws(X, c)
            THEN status' = "error" /\ UNCHANGED <<X_perm, X_out>>
            ELSE LET X_row_permuted == permute_csr_rows(X, r, tb)
                     X_row_col_permuted == permute_csr_cols(X_row_permuted, c, tb)
                     X_col_unpermuted == unpermute_csr_cols(X_row_col_permuted, c, tb)
                 IN  /\ status' = "ok"
                     /\ X_perm' = X_row_col_permuted
                     /\ X_out' = unpermute_csr_rows(X_col_unpermuted, r, tb)
  /\ pc' = "rowcol_roundtrip"
  /\ UNCHANGED <<X, W, W_rows, W_cols, tile_rows, tile_cols, threshold,
                 method, driver, Y_base, Y_out>>

\* test_permute_simple: permute the rows of a dense buffer, then un-permute them.
DenseRoundTrip ==
  /\ UNCHANGED extra
  /\ pc = "load"
  /\ \E wc \in WColsSet, m \in Perms(X.ncols) :
       \E w \in WSet(X.ncols * wc) :
         /\ W' = w /\ W_rows' = X.ncols /\ W_cols' = wc
         /\ row_new2old' = m
         /\ IF permute_weight_rows_throws(w, X.ncols, wc, m)
              THEN status' = "error" /\ UNCHANGED <<Y_base, Y_out>>
              ELSE /\ status' = "ok"
                   /\ Y_base' = w
                   /\ Y_out' = unpermute_rows(permute_weight_rows(w, X.ncols, wc, m),
                                              X.ncols, wc, m)
  /\ pc' = "dense_roundtrip"
  /\ UNCHANGED <<X, tile_rows, tile_cols, threshold, col_new2old, tie, method,
                 driver, X_perm, X_out>>

\* test2_perm_tiled_spmm: permute the rows of X, multiply, un-permute the rows of Y.
PermMultiply ==
  /\ UNCHANGED extra
  /\ pc = "load"
  /\ \E wc \in WColsSet, ts \in TileSizes, r \in Perms(X.nrows), tb \in Ties,
        mt \in {"baseline", "tiled"} :
       \E w \in WSet(X.ncols * wc) :
         /\ mt = "baseline" => ts = <<1, 1>>
         /\ W' = w /\ W_rows' = X.ncols /\ W_cols' = wc
         /\ tile_rows' = ts[1] /\ tile_cols' = ts[2]
         /\ row_new2old' = r /\ tie' = tb /\ method' = mt
         /\ IF permute_csr_rows_throws(X, r)
              THEN status' = "error" /\ UNCHANGED <<X_perm, Y_base, Y_out>>
              ELSE LET Xp == permute_csr_rows(X, r, tb)
                       Y_prime == IF mt = "baseline"
                                    THEN spmm_baseline(Xp, w, Xp.ncols, wc)
                                    ELSE spmm_tiled(Xp, w, Xp.ncols, wc, ts[1], ts[2]).Y
                   IN  /\ status' = "ok"
                       /\ X_perm' = Xp
                       /\ Y_base' = spmm_baseline(X, w, X.ncols, wc)
                       /\ Y_out' = unpermute_rows(Y_prime, X.nrows, wc, r)
  /\ pc' = "perm_multiply"
  /\ UNCHANGED <<X, threshold, col_new2old, driver, X_out>>

\* test_2d_spmm_on_perm: permute rows and columns of X and the rows of W with
\* the column map, multiply, un-permute only the rows of Y.
PermMultiply2D ==
  /\ UNCHANGED extra
  /\ pc = "load"
  /\ \E wc \in WColsSet, r \in Perms(X.nrows), c \in Perms(X.ncols), tb \in Ties :
       \E w \in WSet(X.ncols * wc) :
         /\ W' = w /\ W_rows' = X.ncols /\ W_cols' = wc
         /\ row_new2old' = r /\ col_new2old' = c /\ tie' = tb
         /\ IF \/ permute_csr_rows_throws(X, r) \/ permute_csr_cols_throws(X, c)
               \/ permute_weight_rows_throws(w, X.ncols, wc, c)
              THEN status' = "error" /\ UNCHANGED <<X_perm, Y_base, Y_out>>
              ELSE LET X_row_permuted == permute_csr_rows(X, r, tb)
                       X_row_col_permuted == permute_csr_cols(X_row_permuted, c, tb)
                       W_row_permuted == permute_weight_rows(w, X.ncols, wc, c)
                       Y_permuted == spmm_baseline(X_row_col_permuted, W_row_permuted,
                                                   X.ncols, wc)
                   IN  /\ status' = "ok"
                       /\ X_perm' = X_row_col_permuted
                       /\ Y_base' = spmm_baseline(X, w, X.ncols, wc)
                       /\ Y_out' = unpermute_rows(Y_permuted, X.nrows, wc, r)
  /\ pc' = "perm_multiply_2d"
  /\ UNCHANGED <<X, tile_rows, tile_cols, threshold, method, driver, X_out>>

NextRoundTrip == LoadEntry \/ RowRoundTrip \/ DenseRoundTrip

SpecRoundTrip == Init /\ [][NextRoundTrip]_vars

NextRowColRoundTrip == LoadEntry \/ RowColRoundTrip

SpecRowColRoundTrip == Init /\ [][NextRowColRoundTrip]_vars

NextPermMultiply == LoadEntry \/ PermMultiply

SpecPermMultiply == Init /\ [][NextPermMultiply]_vars

NextPermMultiply2D == LoadEntry \/ PermMultiply2D

SpecPermMultiply2D == Init /\ [][NextPermMultiply2D]_vars

\* ------------------------------------------------- the two tile pipelines
\* One tile of a grid over X goes through both pipelines: Y_out is the dense
\* pipeline's block, Y_base the sparse pipeline's, X_out the extracted tile.
TilePipelines ==
  /\ UNCHANGED extra
  /\ pc = "load"
  /\ \E wc \in WColsSet, ts \in TileSizes, tb \in Ties :
       \E w \in WSet(X.ncols * wc), t \in DOMAIN make_2d_tiles(X, ts[1], ts[2]) :
         LET tile == make_2d_tiles(X, ts[1], ts[2])[t]
             X_tile == extract_tile_csr(X, tile)
             W_tile == extract_tile_W(w, X.ncols, wc, tile)
             W_tile_rows == tile.col_end - tile.col_start
         IN  /\ W' = w /\ W_rows' = X.ncols /\ W_cols' = wc
             /\ tile_rows' = ts[1] /\ tile_cols' = ts[2] /\ tie' = tb
             /\ tiles' = Stored([i \in {0} |-> tile])
             /\ X_out' = X_tile
             /\ Y_out' = dense_perm_spmm_tile(X_tile, W_tile, W_tile_rows, wc, tb)
             /\ Y_base' = sparse_spmm_tile(X_tile, W_tile, W_tile_rows, wc)
  /\ pc' = "tile_pipelines"
  /\ UNCHANGED <<X, threshold, row_new2old, col_new2old, method,
                 tile_pos, Y_final, routes, X_perm, status>>

NextTilePipelines == LoadEntry \/ LoadZero \/ TilePipelines

SpecTilePipelines == Init /\ [][NextTilePipelines]_vars

\* ------------------------------------------------------------- properties
Range(f) == {f[i] : i \in DOMAIN f}

NotInvolution(m) == \E i \in DOMAIN m : m[m[i]] # i

InTile(t, r, c) ==
  /\ t.row_start <= r /\ r < t.row_end
  /\ t.col_start <= c /\ c < t.col_end

\* C1: for a well-formed X and W with W_rows = X.ncols, spmm_tiled returns the
\* same matrix as spmm_baseline, element by element, for every tile size.
TiledEqualsBaseline ==
  (pc = "tiled" /\ status = "ok" /\ WellFormed(X)) => Y_out = Y_base

TiledEqualsBaselineWitness ==
  /\ pc = "tiled" /\ status = "ok" /\ WellFormed(X)
  /\ X.nrows = 3 /\ X.ncols = 3 /\ X.nnz = MaxNnz
  /\ tile_rows = 2 /\ tile_cols = 2
  /\ \E p \in DOMAIN Y_out : Y_out[p] # 0

\* C2: for a well-formed X and the grid of make_2d_tiles, the driver (extract
\* each tile, run the dense or the sparse pipeline, add the block at the
\* tile's rows) returns the same matrix as spmm_baseline.
DriverEqualsBaseline ==
  (pc = "driver_done" /\ WellFormed(X)) => Y_out = Y_base

DriverEqualsBaselineWitness ==
  /\ pc = "driver_done" /\ WellFormed(X)
  /\ X.nnz = MaxNnz
  /\ \E t \in DOMAIN routes : routes[t] = "sparse" /\ tiles[t].nnz > 0
  /\ \E t \in DOMAIN routes : routes[t] = "dense" /\ tiles[t].nnz > 0
  /\ \E p \in DOMAIN Y_out : Y_out[p] # 0

\* C3: the tiles' nnz counts add up to X.nnz, and every stored entry lies in
\* the bounds of exactly one tile, the one whose nnz it incremented.
PartitionComplete ==
  (pc \in {"driver", "driver_done"} /\ WellFormed(X)) =>
    /\ SumFn([t \in DOMAIN tiles |-> tiles[t].nnz], 0, NumTiles(tiles)) = X.nnz
    /\ \A idx \in 0..(X.nnz - 1) :
         \E t \in DOMAIN tiles :
           /\ InTile(tiles[t], RowOf(X, idx), X.indices[idx])
           /\ idx \in TileHits(X, tile_rows, tile_cols, t)
           /\ \A u \in DOMAIN tiles :
                InTile(tiles[u], RowOf(X, idx), X.indices[idx]) => u = t

PartitionCompleteWitness ==
  /\ pc = "driver" /\ WellFormed(X)
  /\ X.nrows = 3 /\ X.ncols = 3 /\ X.nnz = MaxNnz
  /\ tile_rows = 2 /\ tile_cols = 1
  /\ \E t \in DOMAIN tiles : tiles[t].nnz = 0
  /\ \E t \in DOMAIN tiles : tiles[t].nnz > 0 /\ tiles[t].col_start > 0

\* C4: un-permuting the rows of the row-permuted X gives X back: same
\* dimensions, same indptr, same (column, value) entries in the same order.
RowRoundTripIdentity ==
  (pc = "row_roundtrip" /\ status = "ok" /\ WellFormed(X)) => X_out = X

RowRoundTripWitness ==
  /\ pc = "row_roundtrip" /\ status = "ok" /\ WellFormed(X)
  /\ NotInvolution(row_new2old)
  /\ X.nnz = MaxNnz
  /\ X_perm.indptr # X.indptr

\* C5: for every loaded X (duplicate cells included), permuting the rows of
\* X, multiplying by W (baseline or tiled) and un-permuting the rows of the
\* result gives spmm_baseline(X, W).
PermMultiplyEqualsBaseline ==
  (pc = "perm_multiply" /\ status = "ok") => Y_out = Y_base

PermMultiplyWitness ==
  /\ pc = "perm_multiply" /\ status = "ok" /\ WellFormed(X)
  /\ method = "tiled"
  /\ NotInvolution(row_new2old)
  /\ X_perm # X
  /\ \E p, q \in DOMAIN Y_out : Y_out[p] # Y_out[q]

\* C6: for every loaded X (duplicate cells included), permuting rows and
\* columns of X and the rows of W by the column map, multiplying, and
\* un-permuting only the rows of the result gives spmm_baseline(X, W).
PermMultiply2DEqualsBaseline ==
  (pc = "perm_multiply_2d" /\ status = "ok") => Y_out = Y_base

PermMultiply2DWitness ==
  /\ pc = "perm_multiply_2d" /\ status = "ok" /\ WellFormed(X)
  /\ NotInvolution(row_new2old) /\ NotInvolution(col_new2old)
  /\ X.nnz = MaxNnz
  /\ \E p, q \in DOMAIN Y_out : Y_out[p] # Y_out[q]

\* C7: after a row and then a column permutation, un-permuting the columns
\* first and the rows second recovers X exactly.
RowColRoundTripIdentity ==
  (pc = "rowcol_roundtrip" /\ status = "ok" /\ WellFormed(X)) => X_out = X

RowColRoundTripWitness ==
  /\ pc = "rowcol_roundtrip" /\ status = "ok" /\ WellFormed(X)
  /\ NotInvolution(row_new2old) /\ NotInvolution(col_new2old)
  /\ X.nnz = MaxNnz
  /\ X_perm.indptr # X.indptr /\ X_perm.indices # X.indices

\* C8: un-permuting the rows of the row-permuted dense buffer W gives W back,
\* element by element.
DenseRoundTripIdentity ==
  (pc = "dense_roundtrip" /\ status = "ok") => Y_out = W

DenseRoundTripWitness ==
  /\ pc = "dense_roundtrip" /\ status = "ok"
  /\ NotInvolution(row_new2old)
  /\ permute_weight_rows(W, W_rows, W_cols, row_new2old) # W

\* C9: for every tile the extractor produces (a row may store a column twice
\* or store an explicit zero), the dense pipeline's block equals the sparse
\* pipeline's block.
DenseEqualsSparse ==
  pc = "tile_pipelines" => Y_out = Y_base

\* C10: the driver sends a tile to the dense pipeline if and only if the
\* tile's is_dense flag, set by predict_tile_density with the caller's
\* threshold, is true.
RoutesFollowFlag ==
  pc \in {"driver", "driver_done"} =>
    \A t \in DOMAIN routes : (routes[t] = "dense") <=> tiles[t].is_dense

\* ------------------------------------------------- density classification
\* Tile lists a caller may hand to predict_tile_density: up to two tiles, a
\* tile being any Tile struct (zero rows or columns included, as the default
\* constructor leaves it), with whatever is_dense flag it had before.
TileSpans == {<<0, 0>>, <<0, 1>>, <<0, 2>>, <<1, 2>>}
TileNnzs == 0..2
TileStructs ==
  {[row_start |-> r[1], row_end |-> r[2], col_start |-> c[1], col_end |-> c[2],
    nnz |-> n, is_dense |-> d] :
     r \in TileSpans, c \in TileSpans, n \in TileNnzs, d \in BOOLEAN}
TileLists ==
  {EmptyVec} \cup {Stored([i \in {0} |-> a]) : a \in TileStructs}
             \cup {Stored([i \in {0, 1} |-> IF i = 0 THEN ab[1] ELSE ab[2]]) :
                     ab \in TileStructs \X {t \in TileStructs : t.row_start = 0 /\ t.col_start = 0}}

\* Thresholds a caller passes: 0, 0.05, 0.5 and 1.
ClassifyThresholds ==
  {[num |-> 0, den |-> 1], DENSE_TILE_THRESHOLD, [num |-> 1, den |-> 2], [num |-> 1, den |-> 1]}

InitClassify ==
  /\ pc = "tiles"
  /\ X = EmptyCSR(0, 0)
  /\ tiles \in TileLists
  /\ tiles_in = tiles
  /\ nnz_counts = EmptyVec /\ descending = FALSE
  /\ InitBlank

\* predict_tile_density(tiles, thr): the flags are written into the caller's
\* vector and the pair of counts is returned.
Classify ==
  /\ pc \in {"tiles", "classified"}
  /\ \E thr \in ClassifyThresholds :
       LET r == predict_tile_density(tiles, thr)
       IN  /\ threshold' = thr
           /\ tiles' = r.tiles
           /\ dense_count' = r.dense_count
           /\ sparse_count' = r.sparse_count
  /\ tiles_in' = tiles
  /\ prev_class' = [tiles |-> tiles, dense_count |-> dense_count,
                    sparse_count |-> sparse_count, threshold |-> threshold]
  /\ pc' = IF pc = "tiles" THEN "classified" ELSE "reclassified"
  /\ UNCHANGED <<X, W, W_rows, W_cols, tile_rows, tile_cols, row_new2old, col_new2old,
                 tie, method, tile_pos, Y_final, routes, outputs, call, aux>>

NextClassify == Classify

SpecClassify == InitClassify /\ [][NextClassify]_vars

\* Same rectangle and nnz, whatever the flag.
SameTile(a, b) == [a EXCEPT !.is_dense = FALSE] = [b EXCEPT !.is_dense = FALSE]

ClearFlags(ts) == Stored([t \in DOMAIN ts |-> [ts[t] EXCEPT !.is_dense = FALSE]])

\* C11: after predict_tile_density(tiles, t) every tile has is_dense equal to
\* (nnz / (rows * cols) >= t), with density 0 for a tile of zero rows or
\* columns; the returned pair counts the dense and the sparse tiles and adds
\* up to tiles.size().
ClassifyMatchesDensity ==
  pc \in {"classified", "reclassified"} =>
    /\ DOMAIN tiles = DOMAIN tiles_in
    /\ \A t \in DOMAIN tiles :
         LET rows == tiles[t].row_end - tiles[t].row_start
             cols == tiles[t].col_end - tiles[t].col_start
         IN  /\ SameTile(tiles[t], tiles_in[t])
             /\ tiles[t].is_dense <=>
                  IF rows = 0 \/ cols = 0
                    THEN 0 >= threshold.num
                    ELSE tiles[t].nnz * threshold.den >= threshold.num * rows * cols
    /\ dense_count = Cardinality({t \in DOMAIN tiles : tiles[t].is_dense})
    /\ sparse_count = Cardinality({t \in DOMAIN tiles : ~tiles[t].is_dense})
    /\ dense_count + sparse_count = NumTiles(tiles)

\* A tile of zero rows holding a count is sparse, and a tile exactly at the
\* threshold 0.5 is dense.
ClassifyMatchesDensityWitness ==
  /\ pc = "classified"
  /\ threshold = [num |-> 1, den |-> 2]
  /\ NumTiles(tiles) = 2
  /\ tiles[0].row_end = tiles[0].row_start /\ tiles[0].nnz > 0 /\ ~tiles[0].is_dense
  /\ tiles[1].row_end - tiles[1].row_start = 2 /\ tiles[1].col_end - tiles[1].col_start = 2
  /\ tiles[1].nnz = 2 /\ tiles[1].is_dense
  /\ dense_count = 1 /\ sparse_count = 1

\* C12: classifying the same tile set a second time with the same threshold
\* gives the same flags and the same counts, and the outcome of a
\* classification is the one a tile set with no flag set would get: the flags
\* an earlier classification left, with any threshold, do not matter.
ReclassifyStable ==
  pc = "reclassified" =>
    /\ threshold = prev_class.threshold =>
         /\ tiles = prev_class.tiles
         /\ dense_count = prev_class.dense_count
         /\ sparse_count = prev_class.sparse_count
    /\ LET fresh == predict_tile_density(ClearFlags(tiles_in), threshold)
       IN  /\ tiles = fresh.tiles
           /\ dense_count = fresh.dense_count
           /\ sparse_count = fresh.sparse_count

\* A second classification with a higher threshold clears a flag the first
\* one set.
ReclassifyStableWitness ==
  /\ pc = "reclassified"
  /\ \E t \in DOMAIN tiles : prev_class.tiles[t].is_dense /\ ~tiles[t].is_dense
  /\ \E t \in DOMAIN tiles : prev_class.tiles[t].is_dense /\ tiles[t].is_dense
  /\ prev_class.threshold # threshold

\* ------------------------------------------------------- ordering by count
\* Count vectors a caller may hand to create_row_new2old / create_col_new2old.
CountVals == 0..2
CountLens == 0..4
CountVecs == UNION {[0..(n - 1) -> CountVals] : n \in CountLens}

InitOrder ==
  /\ pc = "counts"
  /\ X = EmptyCSR(0, 0)
  /\ tiles = EmptyVec /\ tiles_in = EmptyVec
  /\ nnz_counts \in CountVecs
  /\ descending \in BOOLEAN
  /\ InitBlank

CreateRowOrder ==
  /\ pc = "counts"
  /\ \E tb \in Ties :
       /\ tie' = tb
       /\ row_new2old' = create_row_new2old(nnz_counts, descending, tb)
  /\ op' = "create_row_new2old"
  /\ pc' = "ordered"
  /\ UNCHANGED <<X, W, W_rows, W_cols, tile_rows, tile_cols, threshold, col_new2old,
                 method, driver, outputs, classify, nnz_counts, descending, aux>>

CreateColOrder ==
  /\ pc = "counts"
  /\ \E tb \in Ties :
       /\ tie' = tb
       /\ col_new2old' = create_col_new2old(nnz_counts, descending, tb)
  /\ op' = "create_col_new2old"
  /\ pc' = "ordered"
  /\ UNCHANGED <<X, W, W_rows, W_cols, tile_rows, tile_cols, threshold, row_new2old,
                 method, driver, outputs, classify, nnz_counts, descending, aux>>

NextOrder == CreateRowOrder \/ CreateColOrder

SpecOrder == InitOrder /\ [][NextOrder]_vars

\* The map the operation returned.
OrderResult == IF op = "create_row_new2old" THEN row_new2old ELSE col_new2old

\* C13: the returned map is the permutation of [0, n) ordered by count in
\* which equal counts keep ascending index order, so it is a function of the
\* counts alone; on the row counts (2, 1, 2, 1), descending, it is [0, 2, 1, 3].
OrderTiesByIndex ==
  pc = "ordered" =>
    LET m == OrderResult
        n == MapLen(nnz_counts)
    IN  /\ DOMAIN m = 0..(n - 1)
        /\ \A i \in 0..(n - 1) : \E p \in 0..(n - 1) : m[p] = i
        /\ \A p \in 0..(n - 2) :
             \/ IF descending THEN nnz_counts[m[p]] > nnz_counts[m[p + 1]]
                              ELSE nnz_counts[m[p]] < nnz_counts[m[p + 1]]
             \/ nnz_counts[m[p]] = nnz_counts[m[p + 1]] /\ m[p] < m[p + 1]
        /\ (/\ n = 4 /\ descending
            /\ nnz_counts[0] = 2 /\ nnz_counts[1] = 1
            /\ nnz_counts[2] = 2 /\ nnz_counts[3] = 1)
             => (m[0] = 0 /\ m[1] = 2 /\ m[2] = 1 /\ m[3] = 3)

\* ------------------------------------------------------- the 4x4 scenario
\* The matrix of test_permute_simple: indptr = {0, 2, 3, 5, 6},
\* indices = {0, 2, 1, 0, 2, 3}, data = {1, ..., 6}, stored entry by entry.
ScenarioShape == <<4, 4>>
ScenarioRows == <<0, 0, 1, 2, 2, 3>>
ScenarioCols == <<0, 2, 1, 0, 2, 3>>
ScenarioTileSizes == (1..4) \X (1..4)

InitScenario == InitShapes({ScenarioShape})

ScenarioStore ==
  /\ pc = "load"
  /\ X.nnz < Len(ScenarioRows)
  /\ X' = AppendEntry(X, ScenarioRows[X.nnz + 1], ScenarioCols[X.nnz + 1], X.nnz + 1)
  /\ UNCHANGED <<pc, inputs, driver, outputs, extra>>

ScenarioTile ==
  /\ pc = "load"
  /\ \E ts \in ScenarioTileSizes :
       /\ tile_rows' = ts[1] /\ tile_cols' = ts[2]
       /\ tiles' = make_2d_tiles(X, ts[1], ts[2])
  /\ op' = "make_2d_tiles"
  /\ pc' = "scenario_tiled"
  /\ UNCHANGED <<X, W, W_rows, W_cols, threshold, row_new2old, col_new2old, tie, method,
                 tile_pos, Y_final, routes, outputs, classify, nnz_counts, descending, aux>>

NextScenario == ScenarioStore \/ ScenarioTile

SpecScenario == InitScenario /\ [][NextScenario]_vars

\* The whole scenario matrix, tiled 2x2.
ScenarioTiled2x2 ==
  /\ pc = "scenario_tiled" /\ X.nnz = 6
  /\ tile_rows = 2 /\ tile_cols = 2

\* C14, as amended: the 2x2 tiling of the scenario matrix has exactly 4
\* tiles, whose nnz counts in grid order are 2, 1, 1, 2, summing to 6.
ScenarioTileCounts ==
  ScenarioTiled2x2 =>
    /\ NumTiles(tiles) = 4
    /\ tiles[0].nnz = 2 /\ tiles[1].nnz = 1 /\ tiles[2].nnz = 1 /\ tiles[3].nnz = 2
    /\ SumFn([t \in DOMAIN tiles |-> tiles[t].nnz], 0, 4) = 6

ScenarioTileCountsWitness ==
  /\ ScenarioTiled2x2
  /\ X.indptr[1] = 2 /\ X.indptr[2] = 3 /\ X.indptr[3] = 5 /\ X.indptr[4] = 6
  /\ X.indices[1] = 2 /\ X.indices[2] = 1 /\ X.indices[5] = 3
  /\ X.data[0] = 1 /\ X.data[5] = 6
  /\ tiles[3].row_start = 2 /\ tiles[3].col_start = 2

\* C14, as stated: the four tiles' nnz counts are 2, 0, 1 and 3 (in some
\* order), summing to 6.
ScenarioTileCountsAsStated ==
  ScenarioTiled2x2 =>
    /\ NumTiles(tiles) = 4
    /\ \E m \in Perms(4) :
         /\ tiles[m[0]].nnz = 2 /\ tiles[m[1]].nnz = 0
         /\ tiles[m[2]].nnz = 1 /\ tiles[m[3]].nnz = 3
    /\ SumFn([t \in DOMAIN tiles |-> tiles[t].nnz], 0, 4) = 6

\* ------------------------------------- permutation operations, any map
\* Maps a caller may pass: any length up to 3, entries from -1 to 3.
MapLens == 0..3
MapVals == -1..3
AnyMaps == UNION {[0..(n - 1) -> MapVals] : n \in MapLens}
PermOpShapes == {<<2, 2>>, <<2, 3>>, <<3, 2>>}

Bijective(m, n) ==
  /\ MapLen(m) = n /\ InRange(m, n)
  /\ \A a, b \in DOMAIN m : m[a] = m[b] => a = b

\* permute_csr_rows checks the length only.  An entry outside [0, nrows)
\* reads X.indptr outside the vector; a repeated entry can make the copied
\* rows outgrow the nnz-sized Xp.indices / Xp.data.
permute_csr_rows_ub(M, new2old) ==
  \/ ~InRange(new2old, M.nrows)
  \/ SumFn([a \in 0..(M.nrows - 1) |->
              M.indptr[new2old[a] + 1] - M.indptr[new2old[a]]], 0, M.nrows) > M.nnz

\* permute_dense_rows checks nothing: it reads row_new2old[new_row] for every
\* new_row < M and X_dense[old_row * K + k].
permute_dense_rows_ub(M, K, new2old) ==
  \E new_row \in 0..(M - 1) :
    \/ new_row \notin DOMAIN new2old
    \/ K > 0 /\ (new2old[new_row] < 0 \/ new2old[new_row] >= M)

\* permute_dense_cols checks nothing: it reads col_new2old[new_col] for every
\* new_col < K and X_dense[i * K + old_col].
permute_dense_cols_ub(M, K, new2old) ==
  \E i \in 0..(M - 1), new_col \in 0..(K - 1) :
    \/ new_col \notin DOMAIN new2old
    \/ i * K + new2old[new_col] < 0
    \/ i * K + new2old[new_col] >= M * K

InitPermOps == InitShapes(PermOpShapes)

\* Outcome of a call: it threw, it accessed a vector out of bounds, or it
\* returned.
Outcome(throws, ub) == IF throws THEN "error" ELSE IF ub THEN "ub" ELSE "ok"

\* One of the eight operations is called on X (or on X as a dense buffer)
\* with any map.
CsrRowOp ==
  /\ pc = "load"
  /\ \E m \in AnyMaps, tb \in Ties, o \in {"permute_csr_rows", "unpermute_csr_rows"} :
       LET throws == IF o = "permute_csr_rows" THEN permute_csr_rows_throws(X, m)
                                               ELSE unpermute_csr_rows_throws(X, m)
           ub == o = "permute_csr_rows" /\ permute_csr_rows_ub(X, m)
       IN  /\ op' = o /\ row_new2old' = m /\ tie' = tb
           /\ status' = Outcome(throws, ub)
           /\ X_out' = IF status' # "ok" THEN X_out
                       ELSE IF o = "permute_csr_rows" THEN permute_csr_rows(X, m, tb)
                       ELSE unpermute_csr_rows(X, m, tb)
  /\ pc' = "perm_op"
  /\ UNCHANGED <<X, W, W_rows, W_cols, tile_rows, tile_cols, threshold, col_new2old,
                 method, driver, Y_base, Y_out, X_perm, classify, nnz_counts, descending, aux>>

CsrColOp ==
  /\ pc = "load"
  /\ \E m \in AnyMaps, tb \in Ties, o \in {"permute_csr_cols", "unpermute_csr_cols"} :
       LET throws == IF o = "permute_csr_cols" THEN permute_csr_cols_throws(X, m)
                                               ELSE unpermute_csr_cols_throws(X, m)
       IN  /\ op' = o /\ col_new2old' = m /\ tie' = tb
           /\ status' = Outcome(throws, FALSE)
           /\ X_out' = IF status' # "ok" THEN X_out
                       ELSE IF o = "permute_csr_cols" THEN permute_csr_cols(X, m, tb)
                       ELSE unpermute_csr_cols(X, m, tb)
  /\ pc' = "perm_op"
  /\ UNCHANGED <<X, W, W_rows, W_cols, tile_rows, tile_cols, threshold, row_new2old,
                 method, driver, Y_base, Y_out, X_perm, classify, nnz_counts, descending, aux>>

\* The dense row operations on the M x K buffer holding X.
DenseRowOp ==
  /\ pc = "load"
  /\ \E m \in AnyMaps, o \in {"permute_weight_rows", "unpermute_rows", "permute_dense_rows"} :
       LET buf == materialize_csr_to_dense(X)
           throws == CASE o = "permute_weight_rows" ->
                            permute_weight_rows_throws(buf, X.nrows, X.ncols, m)
                       [] o = "unpermute_rows" -> unpermute_rows_throws(buf, X.nrows, X.ncols, m)
                       [] OTHER -> FALSE
           ub == o = "permute_dense_rows" /\ permute_dense_rows_ub(X.nrows, X.ncols, m)
       IN  /\ op' = o /\ row_new2old' = m
           /\ W' = buf /\ W_rows' = X.nrows /\ W_cols' = X.ncols
           /\ status' = Outcome(throws, ub)
           /\ Y_out' = IF status' # "ok" THEN Y_out
                       ELSE CASE o = "permute_weight_rows" ->
                                   permute_weight_rows(buf, X.nrows, X.ncols, m)
                              [] o = "unpermute_rows" -> unpermute_rows(buf, X.nrows, X.ncols, m)
                              [] OTHER -> permute_dense_rows(buf, X.nrows, X.ncols, m)
  /\ pc' = "perm_op"
  /\ UNCHANGED <<X, tile_rows, tile_cols, threshold, col_new2old, tie,
                 method, driver, Y_base, X_perm, X_out, classify, nnz_counts, descending, aux>>

DenseColOp ==
  /\ pc = "load"
  /\ \E m \in AnyMaps :
       LET buf == materialize_csr_to_dense(X)
       IN  /\ op' = "permute_dense_cols" /\ col_new2old' = m
           /\ W' = buf /\ W_rows' = X.nrows /\ W_cols' = X.ncols
           /\ status' = Outcome(FALSE, permute_dense_cols_ub(X.nrows, X.ncols, m))
           /\ Y_out' = IF status' # "ok" THEN Y_out
                       ELSE permute_dense_cols(buf, X.nrows, X.ncols, m)
  /\ pc' = "perm_op"
  /\ UNCHANGED <<X, tile_rows, tile_cols, threshold, row_new2old, tie,
                 method, driver, Y_base, X_perm, X_out, classify, nnz_counts, descending, aux>>

NextPermOps == LoadEntry \/ CsrRowOp \/ CsrColOp \/ DenseRowOp \/ DenseColOp

SpecPermOps == InitPermOps /\ [][NextPermOps]_vars

ColOps == {"permute_csr_cols", "unpermute_csr_cols", "permute_dense_cols"}

\* The map the call was given and the dimension it permutes.
MapGiven == IF op \in ColOps THEN col_new2old ELSE row_new2old
MapTarget == IF op \in ColOps THEN X.ncols ELSE X.nrows

\* C15: a permutation operation given a map of the wrong length, or with an
\* entry outside [0, n), ends in an error: it returns nothing and makes no
\* access with the bad entry.
InvalidMapRejected ==
  (pc = "perm_op" /\ (MapLen(MapGiven) # MapTarget \/ ~InRange(MapGiven, MapTarget)))
    => status = "error"

\* C16: a permutation operation given a map of the right length, all entries
\* in range, but not one-to-one, ends in an error: it returns no matrix and
\* writes nothing outside its arrays.
NonBijectiveRejected ==
  (/\ pc = "perm_op"
   /\ MapLen(MapGiven) = MapTarget /\ InRange(MapGiven, MapTarget)
   /\ ~Bijective(MapGiven, MapTarget))
    => status = "error"

\* ------------------------------------- multiply entry points, any W_rows
\* Row counts of W a caller may pass, whatever X.ncols is.
WRowsSet == 1..3

\* spmm_baseline or spmm_tiled on X and a W of W_rows x W_cols.
MultiplyAny ==
  /\ pc = "load"
  /\ \E wr \in WRowsSet, wc \in WColsSet, ts \in TileSizes,
        o \in {"spmm_baseline", "spmm_tiled"} :
       \E w \in WSet(wr * wc) :
         /\ o = "spmm_baseline" => ts = <<1, 1>>
         /\ op' = o
         /\ W' = w /\ W_rows' = wr /\ W_cols' = wc
         /\ tile_rows' = ts[1] /\ tile_cols' = ts[2]
         /\ IF o = "spmm_baseline"
              THEN IF spmm_baseline_throws(X, wr)
                     THEN status' = "error" /\ UNCHANGED Y_out
                     ELSE status' = "ok" /\ Y_out' = spmm_baseline(X, w, wr, wc)
              ELSE IF spmm_tiled_throws(X, wr)
                     THEN status' = "error" /\ UNCHANGED Y_out
                     ELSE status' = "ok" /\ Y_out' = spmm_tiled(X, w, wr, wc, ts[1], ts[2]).Y
  /\ pc' = "multiplied"
  /\ UNCHANGED <<X, threshold, row_new2old, col_new2old, tie, method, driver,
                 Y_base, X_perm, X_out, classify, nnz_counts, descending, aux>>

\* process_tiles_with_predictor on the grid of X and a W of W_rows x W_cols:
\* the function starts its loop without looking at W_rows.
DriverBeginAny ==
  /\ pc = "load"
  /\ \E wr \in WRowsSet, wc \in WColsSet, ts \in TileSizes, tb \in Ties :
       \E w \in WSet(wr * wc) :
         /\ W' = w /\ W_rows' = wr /\ W_cols' = wc
         /\ tile_rows' = ts[1] /\ tile_cols' = ts[2]
         /\ tie' = tb
         /\ tiles' = predict_tile_density(make_2d_tiles(X, ts[1], ts[2]),
                                          DENSE_TILE_THRESHOLD).tiles
         /\ Y_final' = Vec(X.nrows * wc, 0)
  /\ IF log_annotation = ""
       THEN UNCHANGED log
       ELSE \E th \in OmpThreads : log' = log_start(log_annotation, log, th)
  /\ metrics' = ZeroMetrics
  /\ regions' = EmptyVec
  /\ op' = "process_tiles_with_predictor"
  /\ tile_pos' = 0
  /\ routes' = EmptyVec
  /\ pc' = "driver"
  /\ UNCHANGED <<X, threshold, row_new2old, col_new2old, method, outputs,
                 classify, nnz_counts, descending, slice, log_annotation, workers>>

NextMismatch == LoadEntry \/ MultiplyAny \/ DriverBeginAny \/ DriverStep \/ DriverReturn

SpecMismatch == Init /\ [][NextMismatch]_vars

\* C17: a multiply entry point called with X.ncols # W_rows ends in an error
\* and returns no result matrix.
MismatchRejected ==
  (pc \in {"multiplied", "driver_done"} /\ X.ncols # W_rows) => status = "error"

\* ------------------------------------------- a CSR built by hand, any column
\* CSR is a plain struct: a caller assigns indptr, indices and data (as the
\* tests do) and nothing looks at the column it stores.
StoreAnyColumn ==
  /\ pc = "load"
  /\ X.nnz < MaxNnz
  /\ \E r \in 0..(X.nrows - 1), c \in (-1)..X.ncols, v \in DataVals :
       /\ CanAppend(X, r, c)
       /\ X' = AppendEntry(X, r, c, v)
  /\ UNCHANGED <<pc, inputs, driver, outputs, extra>>

\* make_2d_tiles on whatever X holds.
TileAnyCSR ==
  /\ pc = "load"
  /\ \E ts \in TileSizes :
       /\ tile_rows' = ts[1] /\ tile_cols' = ts[2]
       /\ tiles' = make_2d_tiles(X, ts[1], ts[2])
  /\ op' = "make_2d_tiles"
  /\ pc' = "core_op"
  /\ UNCHANGED <<X, W, W_rows, W_cols, threshold, row_new2old, col_new2old, tie, method,
                 tile_pos, Y_final, routes, outputs, classify, nnz_counts, descending, aux>>

\* compute_nnz_per_col on whatever X holds.
CountColsAnyCSR ==
  /\ pc = "load"
  /\ nnz_counts' = compute_nnz_per_col(X)
  /\ op' = "compute_nnz_per_col"
  /\ pc' = "core_op"
  /\ UNCHANGED <<X, inputs, driver, outputs, classify, descending, aux>>

NextMalformed == StoreAnyColumn \/ TileAnyCSR \/ CountColsAnyCSR

SpecMalformed == Init /\ [][NextMalformed]_vars

\* C18: a CSR storing a column outside [0, ncols) is rejected when it is
\* built, so a core operation only ever runs on a valid CSR (or the run ended
\* in an error) and never skips a stored entry.
MalformedRejected ==
  pc = "core_op" =>
    \/ status = "error"
    \/ /\ ValidCSR(X)
       /\ op = "make_2d_tiles" =>
            SumFn([t \in DOMAIN tiles |-> tiles[t].nnz], 0, NumTiles(tiles)) = X.nnz
       /\ op = "compute_nnz_per_col" => SumFn(nnz_counts, 0, X.ncols) = X.nnz

\* ------------------------------------------------------- grid geometry
\* Least k with k * b >= a.
CeilOf(a, b) == CHOOSE k \in 0..a : k * b >= a /\ (k = 0 \/ (k - 1) * b < a)

\* C19: make_2d_tiles returns ceil(nrows / tile_rows) * ceil(ncols / tile_cols)
\* tiles; every tile is non-empty and inside the matrix, only the last tile of
\* a dimension is smaller than the configured size, and every cell of the
\* matrix lies in exactly one tile.
GridGeometry ==
  pc \in {"driver", "driver_done"} =>
    /\ NumTiles(tiles) = CeilOf(X.nrows, tile_rows) * CeilOf(X.ncols, tile_cols)
    /\ \A t \in DOMAIN tiles :
         /\ 0 <= tiles[t].row_start /\ tiles[t].row_start < tiles[t].row_end
         /\ tiles[t].row_end <= X.nrows
         /\ 0 <= tiles[t].col_start /\ tiles[t].col_start < tiles[t].col_end
         /\ tiles[t].col_end <= X.ncols
         /\ \/ tiles[t].row_end - tiles[t].row_start = tile_rows
            \/ tiles[t].row_end = X.nrows /\ tiles[t].row_end - tiles[t].row_start < tile_rows
         /\ \/ tiles[t].col_end - tiles[t].col_start = tile_cols
            \/ tiles[t].col_end = X.ncols /\ tiles[t].col_end - tiles[t].col_start < tile_cols
    /\ \A r \in 0..(X.nrows - 1), c \in 0..(X.ncols - 1) :
         Cardinality({t \in DOMAIN tiles : InTile(tiles[t], r, c)}) = 1

\* A 3x3 matrix tiled 2x2: four tiles, the last one clipped to 1x1.
GridGeometryWitness ==
  /\ pc = "driver"
  /\ X.nrows = 3 /\ X.ncols = 3 /\ tile_rows = 2 /\ tile_cols = 2
  /\ NumTiles(tiles) = 4
  /\ tiles[3].row_start = 2 /\ tiles[3].row_end = 3
  /\ tiles[3].col_start = 2 /\ tiles[3].col_end = 3
  /\ tiles[1].row_end - tiles[1].row_start = 2 /\ tiles[1].col_end - tiles[1].col_start = 1

\* ----------------------------------------------------- tile extraction
\* The stored entries of row i of M, in stored order, as <<column, value>>.
RowSeq(M, i) ==
  [k \in 1..(M.indptr[i + 1] - M.indptr[i]) |->
     <<M.indices[M.indptr[i] + k - 1], M.data[M.indptr[i] + k - 1]>>]

\* The entries of s whose column lies in [lo, hi), rebased to start at 0.
RebasedIn(s, lo, hi) ==
  LET Inside(e) == e[1] >= lo /\ e[1] < hi
      kept == SelectSeq(s, Inside)
  IN  [k \in 1..Len(kept) |-> <<kept[k][1] - lo, kept[k][2]>>]

\* extract_tile_csr applied to one tile of a grid over X.
ExtractTile ==
  /\ UNCHANGED extra
  /\ pc = "load"
  /\ \E ts \in TileSizes :
       \E t \in DOMAIN make_2d_tiles(X, ts[1], ts[2]) :
         LET tile == make_2d_tiles(X, ts[1], ts[2])[t]
         IN  /\ tile_rows' = ts[1] /\ tile_cols' = ts[2]
             /\ tiles' = Stored([i \in {0} |-> tile])
             /\ X_out' = extract_tile_csr(X, tile)
  /\ pc' = "extracted"
  /\ UNCHANGED <<X, W, W_rows, W_cols, threshold, row_new2old, col_new2old,
                 tie, method, tile_pos, Y_final, routes, Y_base, Y_out,
                 X_perm, status>>

NextExtract == LoadEntry \/ LoadZero \/ ExtractTile

SpecExtract == Init /\ [][NextExtract]_vars

\* C20: extract_tile_csr returns a valid CSR of the tile's shape whose row i
\* lists, in X's order, the entries (c - col_start, v) of X's row
\* row_start + i with col_start <= c < col_end; output columns are in range,
\* and sorted duplicate-free rows stay so.
ExtractedTile ==
  pc = "extracted" =>
    LET tile == tiles[0]
    IN  /\ X_out.nrows = tile.row_end - tile.row_start
        /\ X_out.ncols = tile.col_end - tile.col_start
        /\ DOMAIN X_out.indptr = 0..X_out.nrows
        /\ DOMAIN X_out.indices = 0..(X_out.nnz - 1)
        /\ DOMAIN X_out.data = 0..(X_out.nnz - 1)
        /\ ValidCSR(X_out)
        /\ WellFormed(X) => WellFormed(X_out)
        /\ \A i \in 0..(X_out.nrows - 1) :
             RowSeq(X_out, i) =
               RebasedIn(RowSeq(X, tile.row_start + i), tile.col_start, tile.col_end)

\* A tile that does not start at column 0 keeps one entry of a row, rebased,
\* and leaves the row's other entry out.
ExtractedTileWitness ==
  /\ pc = "extracted"
  /\ tiles[0].col_start > 0
  /\ X.nnz = 2 /\ X_out.nnz = 1
  /\ X.indices[0] < tiles[0].col_start
  /\ X.indices[1] >= tiles[0].col_start
  /\ RowOf(X, 0) = RowOf(X, 1)
  /\ X_out.indices[0] = X.indices[1] - tiles[0].col_start

\* ------------------------------------------------------ dense row slice
\* Shapes of W and column ranges of the tile handed to extract_tile_W: ranges
\* inside W, reaching past its last row, starting before its first row, empty.
SliceWRows == 1..3
SliceWCols == 1..2
SliceStarts == (-1)..3
SliceMaxEnd == 4

\* extract_tile_W on a tile whose column range need not lie inside W.
ExtractW ==
  /\ pc = "load"
  /\ \E wr \in SliceWRows, wc \in SliceWCols, cs \in SliceStarts :
       \E ce \in cs..SliceMaxEnd, w \in WSet(wr * wc) :
         LET tile == [row_start |-> 0, row_end |-> X.nrows,
                      col_start |-> cs, col_end |-> ce,
                      nnz |-> 0, is_dense |-> FALSE]
         IN  /\ W' = w /\ W_rows' = wr /\ W_cols' = wc
             /\ tiles' = Stored([i \in {0} |-> tile])
             /\ W_slice' = extract_tile_W(w, wr, wc, tile)
             /\ W_reads' = extract_tile_W_reads(wr, wc, tile)
  /\ op' = "extract_tile_W"
  /\ pc' = "sliced"
  /\ UNCHANGED <<X, tile_rows, tile_cols, threshold, row_new2old, col_new2old,
                 tie, method, tile_pos, Y_final, routes, outputs, classify,
                 nnz_counts, descending, logging, metrics, workers, regions>>

NextSlice == ExtractW

SpecSlice == Init /\ [][NextSlice]_vars

\* C21: extract_tile_W returns (col_end - col_start) x W_cols cells; row i is
\* row col_start + i of W when that row exists and all zeros otherwise, and
\* every position of W it reads lies in a row in [0, W_rows).
SliceOfW ==
  pc = "sliced" =>
    LET tile == tiles[0]
        n == tile.col_end - tile.col_start
    IN  /\ DOMAIN W_slice = 0..(n * W_cols - 1)
        /\ \A i \in 0..(n - 1), j \in 0..(W_cols - 1) :
             W_slice[i * W_cols + j] =
               IF 0 <= tile.col_start + i /\ tile.col_start + i < W_rows
                 THEN W[(tile.col_start + i) * W_cols + j]
                 ELSE 0
        /\ \A p \in W_reads : 0 <= p /\ p < W_rows * W_cols
        /\ W_reads \subseteq DOMAIN W

\* A slice that starts before W's first row and ends after its last one: its
\* first and last rows are zero-filled, a row in between is copied.
SliceOfWWitness ==
  /\ pc = "sliced"
  /\ tiles[0].col_start = -1 /\ tiles[0].col_end = 4
  /\ W_rows = 3 /\ W_cols = 2
  /\ W_slice[0] = 0 /\ W_slice[1] = 0
  /\ W_slice[2] = W[0] /\ W[0] # 0
  /\ W_slice[4 * W_cols + 1] = 0
  /\ W_reads = 0..5

\* ------------------------------------------------------ driver logging
\* Names the caller may give the log, and what the log file may hold before
\* the run: nothing, the lines of an earlier run, lines that do not parse.
Annotations == {"5"}
PriorLogs ==
  {<<>>,
   <<LogLine("OpenMP threads: ", 4), LogLine("CPU dense tiles: ", 1),
     LogLine("spmm compute time: ", 1), LogLine("spmm nnz: ", 2),
     LogLine("spmm flops: ", 8), LogLine("spmm bytes: ", 100),
     LogLine("spmm performance:", 0)>>,
   <<LogLine("spmm nnz: ", 7), [key |-> "spmm nnz: ", val |-> 0, ok |-> FALSE],
     [key |-> "rows_X: ", val |-> 0, ok |-> FALSE]>>}
LoggedShapes == {<<2, 2>>}

InitLogged == InitShapes(LoggedShapes)

\* test_run5 names the log (postfix) and may find a log file of that name.
LogSetup ==
  /\ pc = "load"
  /\ X.nnz = 0
  /\ log_annotation = ""
  /\ \E a \in Annotations, lg \in PriorLogs :
       log_annotation' = a /\ log' = lg
  /\ UNCHANGED <<pc, X, inputs, driver, outputs, classify, call, slice, metrics, workers, regions>>

NextLogged == LoadEntry \/ LogSetup \/ DriverBegin \/ DriverStep \/ DriverReturn

SpecLogged == InitLogged /\ [][NextLogged]_vars

\* The result of the driver's loop from tile t on, written without the
\* counters and without the log.
RECURSIVE LoopResult(_, _)
LoopResult(t, Y) ==
  IF t >= NumTiles(tiles) THEN Y
  ELSE LoopResult(t + 1,
         accumulate_tile(Y, tile_result(X, W, W_rows, W_cols, tiles[t], tie),
                         tiles[t], W_cols))

\* C22: the matrix process_tiles_with_predictor returns is a function of X, W
\* and the tiles alone: it is the same whether log_annotation is empty or
\* not and whatever the log held before, and the counters do not enter it.
ResultIgnoresLog ==
  pc = "driver_done" => Y_out = LoopResult(0, Vec(X.nrows * W_cols, 0))

\* A logged run over an earlier log: the counters are non-zero, the earlier
\* nnz total was read back and added to, and the result is not all zero.
ResultIgnoresLogWitness ==
  /\ pc = "driver_done"
  /\ log_annotation # ""
  /\ metrics.total_nnz = MaxNnz /\ metrics.cpu_dense_tiles > 0
  /\ metrics.total_flops > 0 /\ metrics.total_bytes > 0
  /\ \E n \in DOMAIN log :
       log[n].key = "spmm nnz: " /\ log[n].val = 2 + metrics.total_nnz
  /\ \E p \in DOMAIN Y_out : Y_out[p] # 0

\* ------------------------------------------------------------ tile order
ReorderShapes == {<<2, 3>>}
AllOrdersUpTo == 3

\* Orders in which a list of n tiles is handed over: every order of a short
\* list; for a longer one the list reversed, rotated by one place, and with
\* its first two tiles swapped.
TileOrders(n) ==
  IF n <= AllOrdersUpTo THEN Perms(n)
  ELSE {Stored([i \in 0..(n - 1) |-> n - 1 - i]),
        Stored([i \in 0..(n - 1) |-> (i + 1) % n]),
        Stored([i \in 0..(n - 1) |-> IF i = 0 THEN 1 ELSE IF i = 1 THEN 0 ELSE i])}

Reordered(list, order) == Stored([i \in DOMAIN list |-> list[order[i]]])

InitReorder == InitShapes(ReorderShapes)

\* The same tiles are processed in grid order (Y_base) and in another order
\* (Y_out), by the driver's loop or by the loop of spmm_tiled.
ReorderedRuns ==
  /\ pc = "load"
  /\ \E wc \in WColsSet, ts \in TileSizes, tb \in Ties,
        o \in {"process_tiles_with_predictor", "spmm_tiled"} :
       \E w \in WSet(X.ncols * wc) :
         LET grid == predict_tile_density(make_2d_tiles(X, ts[1], ts[2]),
                                          DENSE_TILE_THRESHOLD).tiles
             zero == Vec(X.nrows * wc, 0)
         IN  \E order \in TileOrders(NumTiles(grid)) :
               /\ W' = w /\ W_rows' = X.ncols /\ W_cols' = wc
               /\ tile_rows' = ts[1] /\ tile_cols' = ts[2]
               /\ tie' = (IF o = "spmm_tiled" THEN "stable" ELSE tb)
               /\ op' = o
               /\ tiles_in' = grid
               /\ tiles' = Reordered(grid, order)
               /\ IF o = "spmm_tiled"
                    THEN /\ Y_base' = tiled_loop(X, w, wc, grid, 0, zero, wc)
                         /\ Y_out' = tiled_loop(X, w, wc, Reordered(grid, order), 0, zero, wc)
                    ELSE /\ Y_base' = driver_loop(X, w, X.ncols, wc, grid, tb, 0, zero)
                         /\ Y_out' = driver_loop(X, w, X.ncols, wc,
                                                  Reordered(grid, order), tb, 0, zero)
  /\ pc' = "reordered"
  /\ UNCHANGED <<X, threshold, row_new2old, col_new2old, method, tile_pos,
                 Y_final, routes, X_perm, X_out, status, dense_count,
                 sparse_count, prev_class, nnz_counts, descending, aux>>

NextReorder == LoadEntry \/ ReorderedRuns

SpecReorder == InitReorder /\ [][NextReorder]_vars

\* C23: processing the same tiles in another order gives the same output,
\* in the driver's loop and in the loop of spmm_tiled.
OrderIrrelevant ==
  pc = "reordered" =>
    /\ NumTiles(tiles) = NumTiles(tiles_in)
    /\ \A t \in DOMAIN tiles_in : \E u \in DOMAIN tiles : tiles[u] = tiles_in[t]
    /\ Y_out = Y_base

\* The driver processes two tiles of one row band, both adding a non-zero
\* block to the same output rows, in the order opposite to the grid's.
OrderIrrelevantWitness ==
  /\ pc = "reordered" /\ op = "process_tiles_with_predictor"
  /\ NumTiles(tiles) = 2 /\ tiles[0] = tiles_in[1] /\ tiles[1] = tiles_in[0]
  /\ tiles[0].row_start = tiles[1].row_start
  /\ tiles[0].nnz > 0 /\ tiles[1].nnz > 0
  /\ \E p \in DOMAIN Y_out :
       /\ Y_out[p] # 0
       /\ tile_result(X, W, W_rows, W_cols, tiles[0], tie)[p] # 0
       /\ tile_result(X, W, W_rows, W_cols, tiles[1], tie)[p] # 0

\* ------------------------------------------------- parallel row workers
ParallelShapes == {<<2, 2>>, <<3, 2>>}
ParallelOps == {"spmm_baseline", "dense_spmm_cpu_tile"}

InitParallel == InitShapes(ParallelShapes)

\* The parallel region is entered: Y is zero, one worker per row is at its
\* first step.  Y_base is the result of the loop run sequentially.
ParBegin ==
  /\ pc = "load"
  /\ \E o \in ParallelOps, wc \in WColsSet :
       \E w \in WSet(X.ncols * wc) :
         /\ op' = o
         /\ W' = w /\ W_rows' = X.ncols /\ W_cols' = wc
         /\ Y_out' = Vec(X.nrows * wc, 0)
         /\ Y_base' = IF o = "spmm_baseline"
                         THEN spmm_baseline(X, w, X.ncols, wc)
                         ELSE dense_spmm_cpu_tile(materialize_csr_to_dense(X), w,
                                                  X.nrows, X.ncols, wc)
  /\ wpos' = Vec(X.nrows, 0) /\ wtmp' = Vec(X.nrows, 0)
  /\ cell_writes' = Vec(X.nrows, {}) /\ cell_reads' = Vec(X.nrows, {})
  /\ pc' = "parallel"
  /\ UNCHANGED <<X, tile_rows, tile_cols, threshold, row_new2old, col_new2old,
                 tie, method, driver, X_perm, X_out, status, classify,
                 nnz_counts, descending, slice, logging, metrics, regions>>

\* The next step of the worker of row i in spmm_baseline's loop.
BaselineWorkerStep(i) ==
  LET p == wpos[i]
      idx == X.indptr[i] + ((p \div 2) \div W_cols)
      j == (p \div 2) % W_cols
      cell == WorkerCell(i, j, W_cols)
  IN  IF p % 2 = 0
        THEN /\ wtmp' = [wtmp EXCEPT ![i] = Y_out[cell]]
             /\ cell_reads' = [cell_reads EXCEPT ![i] = @ \cup {cell}]
             /\ UNCHANGED <<Y_out, cell_writes>>
        ELSE /\ Y_out' = [Y_out EXCEPT ![cell] =
                            wtmp[i] + X.data[idx] * W[X.indices[idx] * W_cols + j]]
             /\ cell_writes' = [cell_writes EXCEPT ![i] = @ \cup {cell}]
             /\ UNCHANGED <<wtmp, cell_reads>>

\* The next step of the worker of row i in dense_spmm_cpu_tile's loop.
DenseWorkerStep(i) ==
  LET j == wpos[i]
      K == X.ncols
      X_dense == materialize_csr_to_dense(X)
      sum == SumFn([k \in 0..(K - 1) |-> X_dense[i * K + k] * W[k * W_cols + j]], 0, K)
      cell == WorkerCell(i, j, W_cols)
  IN  /\ Y_out' = [Y_out EXCEPT ![cell] = sum]
      /\ cell_writes' = [cell_writes EXCEPT ![i] = @ \cup {cell}]
      /\ UNCHANGED <<wtmp, cell_reads>>

\* Any worker that has not finished its row takes its next step.
WorkerStep ==
  /\ pc = "parallel"
  /\ \E i \in 0..(X.nrows - 1) :
       /\ wpos[i] < WorkerSteps(op, X, i, W_cols)
       /\ IF op = "spmm_baseline" THEN BaselineWorkerStep(i) ELSE DenseWorkerStep(i)
       /\ wpos' = [wpos EXCEPT ![i] = @ + 1]
  /\ UNCHANGED <<pc, X, inputs, driver, Y_base, X_perm, X_out, status, classify,
                 call, slice, logging, metrics, regions>>

\* The implicit barrier at the end of the parallel loop.
ParJoin ==
  /\ pc = "parallel"
  /\ \A i \in 0..(X.nrows - 1) : wpos[i] = WorkerSteps(op, X, i, W_cols)
  /\ pc' = "parallel_done"
  /\ UNCHANGED <<X, inputs, driver, outputs, extra>>

NextParallel == LoadEntry \/ ParBegin \/ WorkerStep \/ ParJoin

SpecParallel == InitParallel /\ [][NextParallel]_vars

RowCells(i, Y_cols) == {i * Y_cols + j : j \in 0..(Y_cols - 1)}

\* C24: in the parallel row loops of spmm_baseline and dense_spmm_cpu_tile
\* the worker of row i writes and reads only cells Y[i, *], no two workers
\* touch the same cell, and after the loop Y is what the sequential loop
\* gives, whatever the interleaving.
RowWorkersIndependent ==
  pc \in {"parallel", "parallel_done"} =>
    /\ \A i \in 0..(X.nrows - 1) :
         /\ cell_writes[i] \subseteq RowCells(i, W_cols)
         /\ cell_reads[i] \subseteq RowCells(i, W_cols)
    /\ \A a, b \in 0..(X.nrows - 1) :
         a # b => /\ cell_writes[a] \cap cell_writes[b] = {}
                  /\ cell_reads[a] \cap cell_writes[b] = {}
    /\ pc = "parallel_done" => Y_out = Y_base

\* spmm_baseline's loop has finished with two workers having interleaved
\* their updates: both rows of Y hold non-zero sums.
RowWorkersIndependentWitness ==
  /\ pc = "parallel_done" /\ op = "spmm_baseline"
  /\ X.nrows = 2 /\ X.nnz = 2
  /\ cell_writes[0] # {} /\ cell_writes[1] # {}
  /\ \E p \in RowCells(0, W_cols) : Y_out[p] # 0
  /\ \E p \in RowCells(1, W_cols) : Y_out[p] # 0

\* -------------------------------------------------------- output regions
\* C25: in the driver's grid scan two tiles of the same row band are added
\* to the same cells of the output, all columns of the band's rows, and two
\* tiles of different row bands are added to disjoint cells.
SameBandSameRegion ==
  pc \in {"driver", "driver_done"} =>
    \A t, u \in DOMAIN regions :
      t # u =>
        /\ regions[t] # {}
        /\ tiles[t].row_start = tiles[u].row_start => regions[t] = regions[u]
        /\ tiles[t].row_start # tiles[u].row_start => regions[t] \cap regions[u] = {}

\* Two tiles of one row band and a tile of another band have been processed.
SameBandSameRegionWitness ==
  /\ pc = "driver_done"
  /\ NumTiles(tiles) = 4 /\ DOMAIN regions = 0..3
  /\ tiles[0].row_start = tiles[1].row_start
  /\ tiles[0].col_start # tiles[1].col_start
  /\ tiles[0].nnz > 0 /\ tiles[1].nnz > 0
  /\ tiles[2].row_start # tiles[0].row_start

\* C25 as stated: two tiles of the same row band and different column bands
\* write disjoint regions of the output.
SameBandDisjointAsStated ==
  pc \in {"driver", "driver_done"} =>
    \A t, u \in DOMAIN regions :
      (/\ t # u
       /\ tiles[t].row_start = tiles[u].row_start
       /\ tiles[t].row_end = tiles[u].row_end
       /\ tiles[t].col_start # tiles[u].col_start)
        => regions[t] \cap regions[u] = {}

\* ------------------------------------------- un-permuting as a permute
\* The inverse of a bijective map: InverseOf(m)[m[i]] = i.
InverseOf(m) == Stored([o \in DOMAIN m |-> CHOOSE i \in DOMAIN m : m[i] = o])

\* X is un-permuted with a map m (X_out) and permuted with the inverse of m
\* (X_perm), along the rows or along the columns.
InverseOps ==
  /\ pc = "load"
  /\ \E tb \in Ties, tb_inv \in Ties :
       /\ tie' = tb
       /\ \/ \E m \in Perms(X.nrows) :
               /\ op' = "unpermute_csr_rows"
               /\ row_new2old' = m /\ UNCHANGED col_new2old
               /\ X_out' = unpermute_csr_rows(X, m, tb)
               /\ X_perm' = permute_csr_rows(X, InverseOf(m), tb_inv)
          \/ \E m \in Perms(X.ncols) :
               /\ op' = "unpermute_csr_cols"
               /\ col_new2old' = m /\ UNCHANGED row_new2old
               /\ X_out' = unpermute_csr_cols(X, m, tb)
               /\ X_perm' = permute_csr_cols(X, InverseOf(m), tb_inv)
  /\ pc' = "inverse_ops"
  /\ UNCHANGED <<X, W, W_rows, W_cols, tile_rows, tile_cols, threshold, method,
                 driver, Y_base, Y_out, status, classify, nnz_counts, descending, aux>>

NextInverse == LoadEntry \/ InverseOps

SpecInverse == Init /\ [][NextInverse]_vars

\* C26: for a well-formed Xp and a bijective map m, unpermute_csr_rows(Xp, m)
\* equals permute_csr_rows(Xp, m_inv) and unpermute_csr_cols(Xp, m) equals
\* permute_csr_cols(Xp, m_inv), field by field, where m_inv[m[i]] = i.
UnpermuteIsInversePermute ==
  (pc = "inverse_ops" /\ WellFormed(X)) => X_out = X_perm

\* A map of three rows that is not its own inverse moves the rows of a
\* matrix whose rows differ.
UnpermuteIsInversePermuteWitness ==
  /\ pc = "inverse_ops" /\ WellFormed(X) /\ op = "unpermute_csr_rows"
  /\ X.nrows = 3 /\ X.nnz = MaxNnz
  /\ InverseOf(row_new2old) # row_new2old
  /\ X_out.indptr # X.indptr
  /\ X_out # permute_csr_rows(X, row_new2old, tie)

\* ------------------------------------------------ the test's inverse map
\* test_permute_unpermute_X, step 1: row_old2new[row_new2old[i_new]] = i_new.
test_row_old2new(new2old, n) ==
  Stored([i_old \in 0..(n - 1) |->
     CHOOSE i_new \in 0..(n - 1) : new2old[i_new] = i_old])

\* Step 2: row_new2old_inv[row_old2new[i_old]] = i_old.
test_row_new2old_inv(new2old, n) ==
  LET old2new == test_row_old2new(new2old, n)
  IN  Stored([i_new \in 0..(n - 1) |->
         CHOOSE i_old \in 0..(n - 1) : old2new[i_old] = i_new])

\* The rows of X are permuted with a map, then permuted again with the map
\* the test builds as its inverse.
Repermute ==
  /\ pc = "load"
  /\ \E m \in Perms(X.nrows), tb \in Ties :
       /\ row_new2old' = m /\ tie' = tb
       /\ X_perm' = permute_csr_rows(X, m, tb)
       /\ X_out' = permute_csr_rows(permute_csr_rows(X, m, tb),
                                    test_row_new2old_inv(m, X.nrows), tb)
  /\ op' = "test_permute_unpermute_X"
  /\ pc' = "repermuted"
  /\ UNCHANGED <<X, W, W_rows, W_cols, tile_rows, tile_cols, threshold, col_new2old,
                 method, driver, Y_base, Y_out, status, classify, nnz_counts,
                 descending, aux>>

NextRepermute == LoadEntry \/ Repermute

SpecRepermute == Init /\ [][NextRepermute]_vars

\* C27: permuting the rows of X with m and then with the map the test builds
\* as the inverse of m gives X back.
RepermuteIsIdentity ==
  (pc = "repermuted" /\ WellFormed(X)) => X_out = X

\* ------------------------------------------------- column permutation
\* permute_csr_cols with a bijective column map.
ColPermute ==
  /\ pc = "load"
  /\ \E c \in Perms(X.ncols), tb \in Ties :
       /\ col_new2old' = c /\ tie' = tb
       /\ IF permute_csr_cols_throws(X, c)
            THEN status' = "error" /\ UNCHANGED X_perm
            ELSE status' = "ok" /\ X_perm' = permute_csr_cols(X, c, tb)
  /\ op' = "permute_csr_cols"
  /\ pc' = "col_permuted"
  /\ UNCHANGED <<X, W, W_rows, W_cols, tile_rows, tile_cols, threshold, row_new2old,
                 method, driver, Y_base, Y_out, X_out, classify, nnz_counts,
                 descending, aux>>

NextColPermute == LoadEntry \/ ColPermute

SpecColPermute == Init /\ [][NextColPermute]_vars

\* The <<column, value>> pairs stored in row i of M.
RowPairs(M, i) ==
  {<<M.indices[idx], M.data[idx]>> : idx \in M.indptr[i]..(M.indptr[i + 1] - 1)}

\* C28: for a well-formed X and a bijective column map c, permute_csr_cols
\* keeps nrows, ncols, nnz and indptr; every stored entry (r, j, v) of X
\* appears as (r, j2, v) with c[j2] = j and nothing else appears; every row
\* is sorted ascending by the new column index.
ColPermuteEntries ==
  (pc = "col_permuted" /\ WellFormed(X)) =>
    /\ status = "ok"
    /\ X_perm.nrows = X.nrows /\ X_perm.ncols = X.ncols
    /\ X_perm.nnz = X.nnz /\ X_perm.indptr = X.indptr
    /\ DOMAIN X_perm.indices = DOMAIN X.indices
    /\ DOMAIN X_perm.data = DOMAIN X.data
    /\ \A r \in 0..(X.nrows - 1) :
         /\ \A e \in RowPairs(X, r) :
              \E f \in RowPairs(X_perm, r) : col_new2old[f[1]] = e[1] /\ f[2] = e[2]
         /\ \A f \in RowPairs(X_perm, r) :
              <<col_new2old[f[1]], f[2]>> \in RowPairs(X, r)
         /\ \A idx \in X_perm.indptr[r]..(X_perm.indptr[r + 1] - 2) :
              X_perm.indices[idx] < X_perm.indices[idx + 1]

\* A row with two entries of different values whose columns change order
\* under the map: the re-sort moves both entries.
ColPermuteEntriesWitness ==
  /\ pc = "col_permuted" /\ WellFormed(X) /\ status = "ok"
  /\ X.ncols = 3 /\ X.nnz = 2 /\ RowOf(X, 0) = RowOf(X, 1)
  /\ X.data[0] # X.data[1]
  /\ col_new2old[X_perm.indices[0]] = X.indices[1]
  /\ X_perm.data[0] = X.data[1] /\ X_perm.data[1] = X.data[0]
  /\ col_new2old # InverseOf(col_new2old)

\* ------------------------------------------------------ tile boundaries
\* C29: at every tile boundary of the driver's loop Y_final is, cell by
\* cell, the sum of the partial results of the tiles processed so far, each
\* added at its rows; rows of no processed tile are zero.
BoundarySum ==
  pc \in {"driver", "driver_done"} =>
    LET parts == Stored([t \in 0..(tile_pos - 1) |->
                   tile_result(X, W, W_rows, W_cols, tiles[t], tie)])
        InRows(t, r) == tiles[t].row_start <= r /\ r < tiles[t].row_end
    IN  /\ DOMAIN Y_final = 0..(X.nrows * W_cols - 1)
        /\ DOMAIN routes = 0..(tile_pos - 1)
        /\ \A r \in 0..(X.nrows - 1), j \in 0..(W_cols - 1) :
             /\ Y_final[r * W_cols + j] =
                  SumFn([t \in 0..(tile_pos - 1) |->
                           IF InRows(t, r)
                             THEN parts[t][(r - tiles[t].row_start) * W_cols + j]
                             ELSE 0],
                        0, tile_pos)
             /\ (\A t \in 0..(tile_pos - 1) : ~InRows(t, r)) => Y_final[r * W_cols + j] = 0

\* A boundary inside the loop: the two tiles of the first row band have been
\* added; the second row of X holds an entry and its output row is still zero.
BoundarySumWitness ==
  /\ pc = "driver" /\ tile_pos = 2 /\ NumTiles(tiles) = 4
  /\ tiles[0].row_end = 1 /\ tiles[1].row_end = 1
  /\ \E j \in 0..(W_cols - 1) : Y_final[j] # 0
  /\ X.indptr[2] > X.indptr[1]
  /\ \E j \in 0..(W_cols - 1) : Y_base[W_cols + j] # 0
  /\ \A j \in 0..(W_cols - 1) : Y_final[W_cols + j] = 0

\* ---------------------------------------------------- nonzeros processed
\* C30: the nnz of the CSR extracted for a tile of make_2d_tiles is the
\* tile's nnz: at every boundary of the driver's loop total_nnz is the sum of
\* the nnz fields of the tiles processed, and after the whole grid it is
\* X.nnz.
TotalNnzIsXNnz ==
  pc \in {"driver", "driver_done"} =>
    /\ metrics.total_nnz =
         SumFn([t \in 0..(tile_pos - 1) |-> tiles[t].nnz], 0, tile_pos)
    /\ tile_pos < NumTiles(tiles) =>
         extract_tile_csr(X, tiles[tile_pos]).nnz = tiles[tile_pos].nnz
    /\ pc = "driver_done" => metrics.total_nnz = X.nnz

\* The whole grid of 1x1 tiles over a 2x2 X has been processed; entries lie
\* in two tiles, one of them not the first of its row band.
TotalNnzIsXNnzWitness ==
  /\ pc = "driver_done" /\ WellFormed(X)
  /\ X.nrows = 2 /\ X.ncols = 2 /\ X.nnz = MaxNnz
  /\ NumTiles(tiles) = 4
  /\ tiles[1].nnz > 0 /\ tiles[2].nnz > 0
  /\ metrics.total_nnz = MaxNnz

====
